---- MODULE Spec2Model ----
(***************************************************************************)
(* dque: a durable FIFO queue kept in numbered segment files.              *)
(*                                                                         *)
(* The model follows queue.go (src/unnamed/part_001) and src/segment.go.   *)
(* A segment file is a flat sequence of units: a data frame is a length    *)
(* header followed by that many payload units, a tombstone is a header of  *)
(* zero.  Every file carries the number of leading units that have been    *)
(* synced; a crash may cut a file anywhere at or after that point.         *)
(*                                                                         *)
(* Close, the directory lock and the blocking dequeue/peek are not part of *)
(* the sources at hand (only their tests are): they are modelled from the  *)
(* specification text and marked as such in the model map.                 *)
(***************************************************************************)
EXTENDS Integers, Sequences, FiniteSets, TLC

\* ------------------------------------------------------------------ bounds
MaxEnq == 5
MaxCap == 2
MaxEnqConc == 3
MaxEnqBlock == 2
NumThreads == 3
MaxCrash == 1
MaxUnits == 9
MaxCapPrepend == 3
MaxPrepend == 2
NumToggleThreads == 2

MaxSegNo == MaxEnq + 1
Records == 1..MaxEnq
Caps == 1..MaxCap
Threads == 1..NumThreads
MainThread == CHOOSE t \in Threads : \A u \in Threads : t <= u

\* ------------------------------------------------------------- error values
ErrNone == "nil"
ErrEmpty == "dque is empty"
errEmptySegment == "Segment is empty"
ErrQueueClosed == "queue is closed"
ErrLocked == "already locked"
ErrExists == "the given queue directory already exists"
ErrNotExist == "the given queue does not exist"
ErrTurboOn == "DQue.TurboOn() is not valid when turbo is on"
ErrTurboOff == "DQue.TurboOff() is not valid when turbo is off"
ErrTurboSync == "DQue.TurboSync() is inappropriate when turbo is off"
ErrInconsistent == "Queue is in an inconsistent state"
ErrNewSegment == "error creating new queue segment"
ErrLoad == "unable to load queue segment"
ErrPanic == "panic: nil pointer dereference"

\* -------------------------------------------------------------------- state
VARIABLES
    dirExists,        \* the queue directory <dirPath>/<name> exists
    files,            \* segment number -> [exists, data, synced]
    lockHeld,         \* the directory lock is held by the live instance
    inst,             \* "none" | "open" | "closed": the DQue instance of the process
    itemsPerSegment,  \* q.config.ItemsPerSegment
    turbo,            \* q.turbo
    firstSegment,     \* q.firstSegment: a reference into heap, or Nil
    lastSegment,      \* q.lastSegment
    heap,             \* reference -> qSegment object
    thr,              \* thread -> position and locals of its current call
    res,              \* the last completed call: its thread, name, value, error
    nEnq,             \* number of Enqueue calls that appended a record
    enqLimit,         \* the run's bound on nEnq
    deqLog,           \* records returned by successful dequeues, in order
    strictEnq,        \* records whose Enqueue returned nil in strict mode
    crashes,          \* number of times the process has died (crash or panic)
    sizeObs           \* thread in Size -> record counts the queue had during the call

disk == <<dirExists, files, lockHeld>>
mem == <<inst, itemsPerSegment, turbo, firstSegment, lastSegment, heap>>
hist == <<nEnq, enqLimit, deqLog, strictEnq, crashes, sizeObs>>
vars == <<dirExists, files, lockHeld, inst, itemsPerSegment, turbo, firstSegment,
          lastSegment, heap, thr, res, nEnq, enqLimit,
          deqLog, strictEnq, crashes,
          sizeObs>>

Nil == "nil"
SegRefs == {"s1", "s2"}

NoFile == [exists |-> FALSE, data |-> <<>>, synced |-> 0]
NullSeg == [number |-> 0, objects |-> <<>>, removeCount |-> 0,
            turbo |-> FALSE, maybeDirty |-> FALSE, file |-> FALSE]
EmptyHeap == [r \in SegRefs |-> NullSeg]

NoRes == [by |-> MainThread, op |-> "", val |-> 0 - 1, err |-> ErrNone, seen |-> {}]
Idle == [pc |-> "idle", op |-> "", acc |-> 0, between |-> 0]

Min(a, b) == IF a < b THEN a ELSE b

\* The nil record a failed call returns.
NilObj == 0 - 1

\* ------------------------------------------------------------------- codec
\* gob output has a record-dependent length; the payload repeats the record.
ZeroRecord == 0
GobLen(r) == 1 + (r % 2)
Encode(r) == [i \in 1..GobLen(r) |-> r]
\* dec.Decode's error is dropped by load: a payload that does not decode
\* leaves the builder's zero value in the list.
Decode(b) == IF Len(b) > 0 /\ b = Encode(b[1]) THEN b[1] ELSE ZeroRecord

DataFrame(r) == <<GobLen(r)>> \o Encode(r)
Tombstone == <<0>>

\* ------------------------------------------------------------ segment.go
\* qSegment.load: the streaming fold over the file's units.  It returns the
\* rebuilt list and removeCount, or err (a payload read at end of file), or
\* panic (a tombstone met while the list is empty: objects[1:] of an empty
\* slice).  A payload cut short but not empty is read without error.
\* load that counts a tombstone but does not drop the record it deletes
RECURSIVE load_KeepDeleted(_, _, _, _)
load_KeepDeleted(data, pos, objects, removeCount) ==
    IF pos > Len(data)
    THEN [err |-> FALSE, panic |-> FALSE, objects |-> objects, removeCount |-> removeCount]
    ELSE LET gobLen == data[pos] IN
         IF gobLen = 0
         THEN load_KeepDeleted(data, pos + 1, objects, removeCount + 1)
         ELSE IF pos + 1 > Len(data)
              THEN [err |-> TRUE, panic |-> FALSE, objects |-> objects,
                    removeCount |-> removeCount]
              ELSE LET last == Min(pos + gobLen, Len(data))
                       gobBytes == SubSeq(data, pos + 1, last)
                   IN  load_KeepDeleted(data, last + 1,
                                        Append(objects, Decode(gobBytes)), removeCount)

\* load that drops the newest record, not the oldest, at a tombstone
RECURSIVE load_DropLast(_, _, _, _)
load_DropLast(data, pos, objects, removeCount) ==
    IF pos > Len(data)
    THEN [err |-> FALSE, panic |-> FALSE, objects |-> objects, removeCount |-> removeCount]
    ELSE LET gobLen == data[pos] IN
         IF gobLen = 0
         THEN IF objects = <<>>
              THEN [err |-> FALSE, panic |-> TRUE, objects |-> objects,
                    removeCount |-> removeCount]
              ELSE load_DropLast(data, pos + 1, SubSeq(objects, 1, Len(objects) - 1),
                                 removeCount + 1)
         ELSE IF pos + 1 > Len(data)
              THEN [err |-> TRUE, panic |-> FALSE, objects |-> objects,
                    removeCount |-> removeCount]
              ELSE LET last == Min(pos + gobLen, Len(data))
                       gobBytes == SubSeq(data, pos + 1, last)
                   IN  load_DropLast(data, last + 1, Append(objects, Decode(gobBytes)),
                                     removeCount)

RECURSIVE load(_, _, _, _)
load(data, pos, objects, removeCount) ==
    IF pos > Len(data)
    THEN [err |-> FALSE, panic |-> FALSE, objects |-> objects, removeCount |-> removeCount]
    ELSE LET gobLen == data[pos] IN
         IF gobLen = 0
         THEN IF objects = <<>>
              THEN [err |-> FALSE, panic |-> TRUE, objects |-> objects,
                    removeCount |-> removeCount]
              ELSE load(data, pos + 1, Tail(objects), removeCount + 1)
         ELSE IF pos + 1 > Len(data)
              THEN [err |-> TRUE, panic |-> FALSE, objects |-> objects,
                    removeCount |-> removeCount]
              ELSE LET last == Min(pos + gobLen, Len(data))
                       gobBytes == SubSeq(data, pos + 1, last)
                   IN  load(data, last + 1, Append(objects, Decode(gobBytes)), removeCount)

size(seg) == Len(seg.objects)

sizeOnDisk(seg) == Len(seg.objects) + seg.removeCount

\* Write through a handle opened without O_APPEND at offset 0: the units
\* replace the file's content
Write_Overwrite(fs, seg, units) ==
    IF seg.file /\ fs[seg.number].exists
    THEN [fs EXCEPT ![seg.number].data = units, ![seg.number].synced = 0]
    ELSE fs

\* file.Write through the segment's handle: appends to the file the handle
\* was opened on; a nil handle writes nothing.
Write(fs, seg, units) ==
    IF seg.file /\ fs[seg.number].exists
    THEN [fs EXCEPT ![seg.number].data = @ \o units]
    ELSE fs

\* file.Sync: everything written so far is on disk.
Sync(fs, seg) ==
    IF seg.file /\ fs[seg.number].exists
    THEN [fs EXCEPT ![seg.number].synced = Len(fs[seg.number].data)]
    ELSE fs

\* _sync that syncs in turbo mode too
sync_TurboSyncs(fs, seg) ==
    IF ~seg.file
    THEN [fs |-> fs, seg |-> seg, err |-> TRUE, syncs |-> 1]
    ELSE [fs |-> Sync(fs, seg), seg |-> [seg EXCEPT !.maybeDirty = seg.turbo],
          err |-> FALSE, syncs |-> 1]

\* qSegment._sync: strict mode syncs and clears the dirty flag, turbo mode
\* only marks the segment dirty.  A nil handle makes Sync fail.  syncs is
\* the number of file.Sync calls made.
sync(fs, seg) ==
    IF seg.turbo
    THEN [fs |-> fs, seg |-> [seg EXCEPT !.maybeDirty = TRUE], err |-> FALSE,
          syncs |-> 0]
    ELSE IF ~seg.file
         THEN [fs |-> fs, seg |-> seg, err |-> TRUE, syncs |-> 1]
         ELSE [fs |-> Sync(fs, seg), seg |-> [seg EXCEPT !.maybeDirty = FALSE],
               err |-> FALSE, syncs |-> 1]

\* qSegment.add
add(fs, seg, object) ==
    LET fs1 == Write(fs, seg, DataFrame(object))
        seg1 == [seg EXCEPT !.objects = Append(@, object)]
    IN  sync(fs1, seg1)

\* remove that does not count the removal
remove_NoCount(fs, seg) ==
    LET fs1 == Write(fs, seg, Tombstone)
        seg1 == [seg EXCEPT !.objects = Tail(@)]
    IN  sync(fs1, seg1)

\* remove that writes the tombstone but leaves the record in the list
remove_NoPop(fs, seg) ==
    LET fs1 == Write(fs, seg, Tombstone)
        seg1 == [seg EXCEPT !.removeCount = @ + 1]
    IN  sync(fs1, seg1)

\* qSegment.remove on a segment with at least one live record
remove(fs, seg) ==
    LET fs1 == Write(fs, seg, Tombstone)
        seg1 == [seg EXCEPT !.objects = Tail(@), !.removeCount = @ + 1]
    IN  sync(fs1, seg1)

\* delete that closes the handle and leaves the file in the directory
delete_KeepFile(fs, seg) ==
    [fs |-> fs, seg |-> [seg EXCEPT !.objects = <<>>, !.file = FALSE]]

\* qSegment.delete: close and unlink the file, clear the list, nil the handle
delete(fs, seg) ==
    [fs |-> [fs EXCEPT ![seg.number] = NoFile],
     seg |-> [seg EXCEPT !.objects = <<>>, !.file = FALSE]]

\* qSegment.turboOn
turboOn(seg) == [seg EXCEPT !.turbo = TRUE]

\* qSegment.turboSync: a strict segment returns at once; a dirty turbo
\* segment syncs (which fails on a nil handle) and clears the flag.
turboSync(fs, seg) ==
    IF ~seg.turbo THEN [fs |-> fs, seg |-> seg, err |-> FALSE, syncs |-> 0]
    ELSE IF seg.maybeDirty
         THEN IF ~seg.file
              THEN [fs |-> fs, seg |-> seg, err |-> TRUE, syncs |-> 1]
              ELSE [fs |-> Sync(fs, seg), seg |-> [seg EXCEPT !.maybeDirty = FALSE],
                    err |-> FALSE, syncs |-> 1]
         ELSE [fs |-> fs, seg |-> seg, err |-> FALSE, syncs |-> 0]

\* turboOff that leaves turbo mode without flushing
turboOff_NoFlush(fs, seg) ==
    [fs |-> fs, seg |-> [seg EXCEPT !.turbo = FALSE], err |-> FALSE, syncs |-> 0]

\* qSegment.turboOff: flush first, then leave turbo mode
turboOff(fs, seg) ==
    IF ~seg.turbo THEN [fs |-> fs, seg |-> seg, err |-> FALSE, syncs |-> 0]
    ELSE LET s == turboSync(fs, seg)
         IN  IF s.err THEN s
             ELSE [fs |-> s.fs, seg |-> [s.seg EXCEPT !.turbo = FALSE], err |-> FALSE,
                   syncs |-> s.syncs]

\* newQueueSegment: fails when the file exists, else creates it empty
newQueueSegment(fs, number, tb) ==
    IF fs[number].exists
    THEN [err |-> TRUE, fs |-> fs, seg |-> NullSeg]
    ELSE [err |-> FALSE,
          fs |-> [fs EXCEPT ![number] = [exists |-> TRUE, data |-> <<>>, synced |-> 0]],
          seg |-> [number |-> number, objects |-> <<>>, removeCount |-> 0,
                   turbo |-> tb, maybeDirty |-> FALSE, file |-> TRUE]]

\* openQueueSegment: fails when no file of that number can be read (it is
\* missing, or the name is a directory's) or load fails
openQueueSegment(fs, number, tb) ==
    IF number \notin DOMAIN fs \/ ~fs[number].exists
    THEN [err |-> TRUE, panic |-> FALSE, seg |-> NullSeg]
    ELSE LET l == load(fs[number].data, 1, <<>>, 0) IN
         IF l.err \/ l.panic
         THEN [err |-> l.err, panic |-> l.panic, seg |-> NullSeg]
         ELSE [err |-> FALSE, panic |-> FALSE,
               seg |-> [number |-> number, objects |-> l.objects,
                        removeCount |-> l.removeCount, turbo |-> tb,
                        maybeDirty |-> FALSE, file |-> TRUE]]

\* -------------------------------------------------------------- queue.go
\* An operation's outcome: the files and the queue's segments after it, the
\* value and error it returns, and whether it panicked on a nil segment.
Outcome(fs, h, first, last, val, err, panic) ==
    [fs |-> fs, heap |-> h, first |-> first, last |-> last,
     val |-> val, err |-> err, panic |-> panic]

OtherRef(r) == CHOOSE x \in SegRefs : x # r

\* Objects no longer referenced by the queue are dropped.
Gc(h, first, last) == [r \in SegRefs |-> IF r \in {first, last} THEN h[r] ELSE NullSeg]

\* Enqueue that rolls the tail one record late (> for >=)
EnqueueBody_LateRoll(fs, h, first, last, cap, tb, obj) ==
    IF last = Nil THEN Outcome(fs, h, first, last, NilObj, ErrPanic, TRUE)
    ELSE IF sizeOnDisk(h[last]) > cap
    THEN LET n == newQueueSegment(fs, h[last].number + 1, tb) IN
         IF n.err THEN Outcome(fs, h, first, last, NilObj, ErrNewSegment, FALSE)
         ELSE LET ref == IF first = last THEN OtherRef(last) ELSE last
                  a == add(n.fs, n.seg, obj)
              IN  Outcome(a.fs, [h EXCEPT ![ref] = a.seg], first, ref, NilObj,
                          IF a.err THEN ErrInconsistent ELSE ErrNone, FALSE)
    ELSE LET a == add(fs, h[last], obj)
         IN  Outcome(a.fs, [h EXCEPT ![last] = a.seg], first, last, NilObj,
                     IF a.err THEN ErrInconsistent ELSE ErrNone, FALSE)

\* Enqueue that numbers the new tail two past the old one
EnqueueBody_SkipNumber(fs, h, first, last, cap, tb, obj) ==
    IF last = Nil THEN Outcome(fs, h, first, last, NilObj, ErrPanic, TRUE)
    ELSE IF sizeOnDisk(h[last]) >= cap
    THEN LET n == newQueueSegment(fs, Min(h[last].number + 2, MaxSegNo), tb) IN
         IF n.err THEN Outcome(fs, h, first, last, NilObj, ErrNewSegment, FALSE)
         ELSE LET ref == IF first = last THEN OtherRef(last) ELSE last
                  a == add(n.fs, n.seg, obj)
              IN  Outcome(a.fs, [h EXCEPT ![ref] = a.seg], first, ref, NilObj,
                          IF a.err THEN ErrInconsistent ELSE ErrNone, FALSE)
    ELSE LET a == add(fs, h[last], obj)
         IN  Outcome(a.fs, [h EXCEPT ![last] = a.seg], first, last, NilObj,
                     IF a.err THEN ErrInconsistent ELSE ErrNone, FALSE)

\* Enqueue that rolls the tail one record early
EnqueueBody_EarlyRoll(fs, h, first, last, cap, tb, obj) ==
    IF last = Nil THEN Outcome(fs, h, first, last, NilObj, ErrPanic, TRUE)
    ELSE IF sizeOnDisk(h[last]) + 1 >= cap
    THEN LET n == newQueueSegment(fs, h[last].number + 1, tb) IN
         IF n.err THEN Outcome(fs, h, first, last, NilObj, ErrNewSegment, FALSE)
         ELSE LET ref == IF first = last THEN OtherRef(last) ELSE last
                  a == add(n.fs, n.seg, obj)
              IN  Outcome(a.fs, [h EXCEPT ![ref] = a.seg], first, ref, NilObj,
                          IF a.err THEN ErrInconsistent ELSE ErrNone, FALSE)
    ELSE LET a == add(fs, h[last], obj)
         IN  Outcome(a.fs, [h EXCEPT ![last] = a.seg], first, last, NilObj,
                     IF a.err THEN ErrInconsistent ELSE ErrNone, FALSE)

\* Enqueue that adds to the tail first and rolls afterwards, leaving an empty
\* new tail
EnqueueBody_AddThenRoll(fs, h, first, last, cap, tb, obj) ==
    IF last = Nil THEN Outcome(fs, h, first, last, NilObj, ErrPanic, TRUE)
    ELSE LET a == add(fs, h[last], obj)
             h1 == [h EXCEPT ![last] = a.seg]
         IN  IF a.err THEN Outcome(a.fs, h1, first, last, NilObj, ErrInconsistent, FALSE)
             ELSE IF sizeOnDisk(a.seg) >= cap
             THEN LET n == newQueueSegment(a.fs, a.seg.number + 1, tb) IN
                  IF n.err THEN Outcome(a.fs, h1, first, last, NilObj, ErrNewSegment, FALSE)
                  ELSE LET ref == IF first = last THEN OtherRef(last) ELSE last
                       IN  Outcome(n.fs, [h1 EXCEPT ![ref] = n.seg], first, ref, NilObj,
                                   ErrNone, FALSE)
             ELSE Outcome(a.fs, h1, first, last, NilObj, ErrNone, FALSE)

\* DQue.Enqueue, the part under the mutex (roll the tail if full, then add)
EnqueueBody(fs, h, first, last, cap, tb, obj) ==
    IF last = Nil THEN Outcome(fs, h, first, last, NilObj, ErrPanic, TRUE)
    ELSE IF sizeOnDisk(h[last]) >= cap
    THEN LET n == newQueueSegment(fs, h[last].number + 1, tb) IN
         IF n.err THEN Outcome(fs, h, first, last, NilObj, ErrNewSegment, FALSE)
         ELSE LET ref == IF first = last THEN OtherRef(last) ELSE last
                  a == add(n.fs, n.seg, obj)
              IN  Outcome(a.fs, [h EXCEPT ![ref] = a.seg], first, ref, NilObj,
                          IF a.err THEN ErrInconsistent ELSE ErrNone, FALSE)
    ELSE LET a == add(fs, h[last], obj)
         IN  Outcome(a.fs, [h EXCEPT ![last] = a.seg], first, last, NilObj,
                     IF a.err THEN ErrInconsistent ELSE ErrNone, FALSE)

\* reclamation that returns no record when a step of it fails
Reclaim_DropOnError(fs, h, first, last, tb, obj) ==
    LET d == delete(fs, h[first])
        h1 == [h EXCEPT ![first] = d.seg]
    IN  IF last = Nil THEN Outcome(d.fs, h1, first, last, NilObj, ErrPanic, TRUE)
        ELSE IF h1[first].number = h1[last].number
        THEN LET n == newQueueSegment(d.fs, h1[first].number + 1, tb) IN
             IF n.err THEN Outcome(d.fs, h1, first, last, NilObj, ErrInconsistent, FALSE)
             ELSE Outcome(n.fs, [h1 EXCEPT ![first] = n.seg], first, first, obj,
                          ErrNone, FALSE)
        ELSE IF h1[first].number + 1 = h1[last].number
        THEN Outcome(d.fs, h1, last, last, obj, ErrNone, FALSE)
        ELSE LET o == openQueueSegment(d.fs, h1[first].number + 1, tb) IN
             IF o.panic THEN Outcome(d.fs, h1, first, last, NilObj, ErrPanic, TRUE)
             ELSE IF o.err
             THEN Outcome(d.fs, h1, first, last, NilObj, ErrInconsistent, FALSE)
             ELSE Outcome(d.fs, [h1 EXCEPT ![first] = o.seg], first, last, obj,
                          ErrNone, FALSE)

\* reclamation that replays the tail's file into a second instance when the
\* tail is the next segment
Reclaim_NoCollapse(fs, h, first, last, tb, obj) ==
    LET d == delete(fs, h[first])
        h1 == [h EXCEPT ![first] = d.seg]
    IN  IF last = Nil THEN Outcome(d.fs, h1, first, last, NilObj, ErrPanic, TRUE)
        ELSE IF h1[first].number = h1[last].number
        THEN LET n == newQueueSegment(d.fs, h1[first].number + 1, tb) IN
             IF n.err THEN Outcome(d.fs, h1, first, last, obj, ErrInconsistent, FALSE)
             ELSE Outcome(n.fs, [h1 EXCEPT ![first] = n.seg], first, first, obj,
                          ErrNone, FALSE)
        ELSE IF h1[first].number + 1 = h1[last].number
        THEN LET o == openQueueSegment(d.fs, h1[first].number + 1, tb) IN
             IF o.panic \/ o.err
             THEN Outcome(d.fs, h1, first, last, obj, ErrInconsistent, FALSE)
             ELSE Outcome(d.fs, [h1 EXCEPT ![first] = o.seg], first, last, obj,
                          ErrNone, FALSE)
        ELSE LET o == openQueueSegment(d.fs, h1[first].number + 1, tb) IN
             IF o.panic THEN Outcome(d.fs, h1, first, last, NilObj, ErrPanic, TRUE)
             ELSE IF o.err
             THEN Outcome(d.fs, h1, first, last, obj, ErrInconsistent, FALSE)
             ELSE Outcome(d.fs, [h1 EXCEPT ![first] = o.seg], first, last, obj,
                          ErrNone, FALSE)

\* DQue.Dequeue, the reclamation step that follows a removal which left the
\* head live-empty and at the cap
Reclaim(fs, h, first, last, tb, obj) ==
    LET d == delete(fs, h[first])
        h1 == [h EXCEPT ![first] = d.seg]
    IN  IF last = Nil THEN Outcome(d.fs, h1, first, last, NilObj, ErrPanic, TRUE)
        ELSE IF h1[first].number = h1[last].number
        THEN LET n == newQueueSegment(d.fs, h1[first].number + 1, tb) IN
             IF n.err THEN Outcome(d.fs, h1, first, last, obj, ErrInconsistent, FALSE)
             ELSE Outcome(n.fs, [h1 EXCEPT ![first] = n.seg], first, first, obj,
                          ErrNone, FALSE)
        ELSE IF h1[first].number + 1 = h1[last].number
        THEN Outcome(d.fs, h1, last, last, obj, ErrNone, FALSE)
        ELSE LET o == openQueueSegment(d.fs, h1[first].number + 1, tb) IN
             IF o.panic THEN Outcome(d.fs, h1, first, last, NilObj, ErrPanic, TRUE)
             ELSE IF o.err
             THEN Outcome(d.fs, h1, first, last, obj, ErrInconsistent, FALSE)
             ELSE Outcome(d.fs, [h1 EXCEPT ![first] = o.seg], first, last, obj,
                          ErrNone, FALSE)

\* Dequeue that writes its tombstone before it looks whether the head is empty
DequeueBody_TombstoneOnEmpty(fs, h, first, last, cap, tb) ==
    IF first = Nil THEN Outcome(fs, h, first, last, NilObj, ErrPanic, TRUE)
    ELSE LET r == remove_NoPop(fs, h[first]) IN
         IF h[first].objects = <<>>
         THEN Outcome(r.fs, [h EXCEPT ![first] = r.seg], first, last, NilObj, ErrEmpty, FALSE)
         ELSE Outcome(r.fs, [h EXCEPT ![first] = [r.seg EXCEPT !.objects = Tail(@)]],
                      first, last, h[first].objects[1], ErrNone, FALSE)

\* Dequeue that returns the head record and leaves it in the queue
DequeueBody_NoRemove(fs, h, first, last, cap, tb) ==
    IF first = Nil THEN Outcome(fs, h, first, last, NilObj, ErrPanic, TRUE)
    ELSE IF h[first].objects = <<>>
    THEN Outcome(fs, h, first, last, NilObj, ErrEmpty, FALSE)
    ELSE Outcome(fs, h, first, last, h[first].objects[1], ErrNone, FALSE)

\* Dequeue that reclaims the head only above the cap
DequeueBody_ReclaimAbove(fs, h, first, last, cap, tb) ==
    IF first = Nil THEN Outcome(fs, h, first, last, NilObj, ErrPanic, TRUE)
    ELSE IF h[first].objects = <<>>
    THEN Outcome(fs, h, first, last, NilObj, ErrEmpty, FALSE)
    ELSE LET obj == h[first].objects[1]
             r == remove(fs, h[first])
             h1 == [h EXCEPT ![first] = r.seg]
         IN  IF r.err THEN Outcome(r.fs, h1, first, last, NilObj, ErrInconsistent, FALSE)
             ELSE IF size(h1[first]) = 0 /\ sizeOnDisk(h1[first]) > cap
             THEN Reclaim(r.fs, h1, first, last, tb, obj)
             ELSE Outcome(r.fs, h1, first, last, obj, ErrNone, FALSE)

\* Dequeue that reclaims the head as soon as it is live-empty
DequeueBody_ReclaimEmpty(fs, h, first, last, cap, tb) ==
    IF first = Nil THEN Outcome(fs, h, first, last, NilObj, ErrPanic, TRUE)
    ELSE IF h[first].objects = <<>>
    THEN Outcome(fs, h, first, last, NilObj, ErrEmpty, FALSE)
    ELSE LET obj == h[first].objects[1]
             r == remove(fs, h[first])
             h1 == [h EXCEPT ![first] = r.seg]
         IN  IF r.err THEN Outcome(r.fs, h1, first, last, NilObj, ErrInconsistent, FALSE)
             ELSE IF size(h1[first]) = 0
             THEN Reclaim(r.fs, h1, first, last, tb, obj)
             ELSE Outcome(r.fs, h1, first, last, obj, ErrNone, FALSE)

\* DQue.Dequeue, the part under the mutex
DequeueBody(fs, h, first, last, cap, tb) ==
    IF first = Nil THEN Outcome(fs, h, first, last, NilObj, ErrPanic, TRUE)
    ELSE IF h[first].objects = <<>>
    THEN Outcome(fs, h, first, last, NilObj, ErrEmpty, FALSE)
    ELSE LET obj == h[first].objects[1]
             r == remove(fs, h[first])
             h1 == [h EXCEPT ![first] = r.seg]
         IN  IF r.err THEN Outcome(r.fs, h1, first, last, NilObj, ErrInconsistent, FALSE)
             ELSE IF size(h1[first]) = 0 /\ sizeOnDisk(h1[first]) >= cap
             THEN Reclaim(r.fs, h1, first, last, tb, obj)
             ELSE Outcome(r.fs, h1, first, last, obj, ErrNone, FALSE)

\* Peek that returns the newest record of the head segment
PeekBody_Last(fs, h, first, last) ==
    IF first = Nil THEN Outcome(fs, h, first, last, NilObj, ErrPanic, TRUE)
    ELSE IF h[first].objects = <<>>
    THEN Outcome(fs, h, first, last, NilObj, ErrEmpty, FALSE)
    ELSE Outcome(fs, h, first, last, h[first].objects[Len(h[first].objects)], ErrNone, FALSE)

\* DQue.Peek, the part under the mutex
PeekBody(fs, h, first, last) ==
    IF first = Nil THEN Outcome(fs, h, first, last, NilObj, ErrPanic, TRUE)
    ELSE IF h[first].objects = <<>>
    THEN Outcome(fs, h, first, last, NilObj, ErrEmpty, FALSE)
    ELSE Outcome(fs, h, first, last, h[first].objects[1], ErrNone, FALSE)

\* Size that forgets the unopened segments between head and tail
SizeOf_NoMiddle(h, first, last, cap) ==
    IF h[first].number = h[last].number
    THEN size(h[first])
    ELSE size(h[first]) + size(h[last])

\* DQue.Size computed in one piece from the segments h[first], h[last]
SizeOf(h, first, last, cap) ==
    IF h[first].number = h[last].number
    THEN size(h[first])
    ELSE IF h[first].number = h[last].number + 1
    THEN size(h[first]) + size(h[last])
    ELSE size(h[first]) + ((h[last].number - h[first].number - 1) * cap) + size(h[last])

\* DQue.SegmentNumbers
SegmentNumbers == <<heap[firstSegment].number, heap[lastSegment].number>>

\* DQue.load: the lowest and the highest numbered file become head and tail;
\* an empty directory gets segment 1.  An error leaves the segments unset.
\* What the queue directory holds besides its segment files: a file whose
\* name does not match filePattern, and a subdirectory whose name does.
OtherEntries ==
    {[isDir |-> FALSE, matches |-> FALSE, num |-> 0],
     [isDir |-> TRUE, matches |-> TRUE, num |-> MaxSegNo + 1]}

\* ioutil.ReadDir: the segment files and the other entries
ReadDir(fs) ==
    {[isDir |-> FALSE, matches |-> TRUE, num |-> n] : n \in {m \in DOMAIN fs : fs[m].exists}}
       \cup OtherEntries

\* load that takes a subdirectory with a matching name for a segment file
SegFiles_WithDirs(fs) ==
    {e.num : e \in {x \in ReadDir(fs) : x.matches}}

\* The file numbers load finds: entries that are not directories and whose
\* name matches filePattern
SegFiles(fs) ==
    {e.num : e \in {x \in ReadDir(fs) : ~x.isDir /\ x.matches}}

MinNum(fs) == CHOOSE n \in SegFiles(fs) : \A m \in SegFiles(fs) : n <= m
MaxNum(fs) == CHOOSE n \in SegFiles(fs) : \A m \in SegFiles(fs) : n >= m

\* load that opens the only segment file twice
qload_TwoInstances(fs, tb) ==
    IF SegFiles(fs) # {}
    THEN LET o1 == openQueueSegment(fs, MinNum(fs), tb) IN
         IF o1.panic THEN Outcome(fs, EmptyHeap, Nil, Nil, NilObj, ErrPanic, TRUE)
         ELSE IF o1.err THEN Outcome(fs, EmptyHeap, Nil, Nil, NilObj, ErrLoad, FALSE)
         ELSE LET h1 == [EmptyHeap EXCEPT !["s1"] = o1.seg] IN
              IF MinNum(fs) = MaxNum(fs)
              THEN Outcome(fs, [h1 EXCEPT !["s2"] = o1.seg], "s1", "s2", NilObj,
                           ErrNone, FALSE)
              ELSE LET o2 == openQueueSegment(fs, MaxNum(fs), tb) IN
                   IF o2.panic THEN Outcome(fs, EmptyHeap, Nil, Nil, NilObj, ErrPanic, TRUE)
                   ELSE IF o2.err THEN Outcome(fs, h1, "s1", Nil, NilObj, ErrLoad, FALSE)
                   ELSE Outcome(fs, [h1 EXCEPT !["s2"] = o2.seg], "s1", "s2", NilObj,
                                ErrNone, FALSE)
    ELSE LET n == newQueueSegment(fs, 1, tb)
         IN  Outcome(n.fs, [EmptyHeap EXCEPT !["s1"] = n.seg], "s1", "s1", NilObj,
                     ErrNone, FALSE)

qload(fs, tb) ==
    IF SegFiles(fs) # {}
    THEN LET o1 == openQueueSegment(fs, MinNum(fs), tb) IN
         IF o1.panic THEN Outcome(fs, EmptyHeap, Nil, Nil, NilObj, ErrPanic, TRUE)
         ELSE IF o1.err THEN Outcome(fs, EmptyHeap, Nil, Nil, NilObj, ErrLoad, FALSE)
         ELSE LET h1 == [EmptyHeap EXCEPT !["s1"] = o1.seg] IN
              IF MinNum(fs) = MaxNum(fs)
              THEN Outcome(fs, h1, "s1", "s1", NilObj, ErrNone, FALSE)
              ELSE LET o2 == openQueueSegment(fs, MaxNum(fs), tb) IN
                   IF o2.panic THEN Outcome(fs, EmptyHeap, Nil, Nil, NilObj, ErrPanic, TRUE)
                   ELSE IF o2.err THEN Outcome(fs, h1, "s1", Nil, NilObj, ErrLoad, FALSE)
                   ELSE Outcome(fs, [h1 EXCEPT !["s2"] = o2.seg], "s1", "s2", NilObj,
                                ErrNone, FALSE)
    ELSE LET n == newQueueSegment(fs, 1, tb)
         IN  Outcome(n.fs, [EmptyHeap EXCEPT !["s1"] = n.seg], "s1", "s1", NilObj,
                     ErrNone, FALSE)

\* ------------------------------------------------------ blocking layer, lock
\* A queue that never counts as closed
QueueClosed_Never == FALSE

\* The queue refuses every call once Close has run.
QueueClosed == inst = "closed"

\* empty_cond.Signal: no waiter, one waiter of the caller's choice, or (an
\* implementation's choice) all of them leave the wait set.
Waiters(th) == {u \in Threads : th[u].pc = "wait"}
WakeSet(th, W) == [u \in Threads |-> IF u \in W THEN [th[u] EXCEPT !.pc = "woken"] ELSE th[u]]
Signal(th) ==
    IF Waiters(th) = {} THEN {th}
    ELSE {WakeSet(th, {u}) : u \in Waiters(th)} \cup {WakeSet(th, Waiters(th))}

\* Broadcast that wakes a single waiter
Broadcast_One(th) ==
    IF Waiters(th) = {} THEN th
    ELSE WakeSet(th, {CHOOSE u \in Waiters(th) : TRUE})

\* empty_cond.Broadcast: every waiter leaves the wait set.
Broadcast(th) == WakeSet(th, Waiters(th))

\* Prepend, from the specification: the records go to the front of the head
\* segment's list, no tombstone is written, and the segment file is written
\* afresh from the list (a new file renamed over the old one, synced).
RECURSIVE Frames(_)
Frames(objects) ==
    IF objects = <<>> THEN <<>> ELSE DataFrame(Head(objects)) \o Frames(Tail(objects))

\* prepend that puts the records behind the segment's list
prepend_AtEnd(fs, seg, objs) ==
    LET objects1 == seg.objects \o objs
        data == Frames(objects1)
    IN  [fs |-> [fs EXCEPT ![seg.number] =
                     [exists |-> TRUE, data |-> data, synced |-> Len(data)]],
         seg |-> [seg EXCEPT !.objects = objects1, !.maybeDirty = FALSE,
                             !.file = TRUE]]

prepend(fs, seg, objs) ==
    LET objects1 == objs \o seg.objects
        data == Frames(objects1)
    IN  [fs |-> [fs EXCEPT ![seg.number] =
                     [exists |-> TRUE, data |-> data, synced |-> Len(data)]],
         seg |-> [seg EXCEPT !.objects = objects1, !.maybeDirty = FALSE,
                             !.file = TRUE]]

PrependBody(fs, h, first, last, objs) ==
    IF first = Nil THEN Outcome(fs, h, first, last, NilObj, ErrPanic, TRUE)
    ELSE LET p == prepend(fs, h[first], objs)
         IN  Outcome(p.fs, [h EXCEPT ![first] = p.seg], first, last, NilObj,
                     ErrNone, FALSE)

\* ---------------------------------------------------------------- plumbing
Result(t, opname, val, err) ==
    [by |-> t, op |-> opname, val |-> val, err |-> err, seen |-> {}]

\* The number of records the queue holds: enqueued and not yet dequeued.
Count == nEnq - Len(deqLog)

\* Threads inside Size see the count change.
Observe(c) ==
    [u \in Threads |-> IF thr[u].pc \in {"szSame", "szFirst", "szLast"}
                       THEN sizeObs[u] \cup {c} ELSE sizeObs[u]]

\* The process dies: its memory and its lock are gone, the files stay.
Die ==
    /\ inst' = "none"
    /\ heap' = EmptyHeap
    /\ firstSegment' = Nil
    /\ lastSegment' = Nil
    /\ turbo' = FALSE
    /\ lockHeld' = FALSE
    /\ thr' = [u \in Threads |-> Idle]
    /\ crashes' = Min(crashes + 1, MaxCrash)

\* Commit an operation's outcome for thread t; th is the thread table after it.
Finish(t, opname, o, th) ==
    /\ files' = o.fs
    /\ res' = Result(t, opname, o.val, o.err)
    /\ IF o.panic
       THEN Die
       ELSE /\ heap' = Gc(o.heap, o.first, o.last)
            /\ firstSegment' = o.first
            /\ lastSegment' = o.last
            /\ thr' = th
            /\ UNCHANGED <<inst, turbo, lockHeld, crashes>>

\* A call refused because the queue is closed changes nothing but the result.
Refuse(t, opname) ==
    /\ res' = Result(t, opname, NilObj, ErrQueueClosed)
    /\ thr' = [thr EXCEPT ![t] = Idle]
    /\ UNCHANGED <<disk, mem, hist>>

\* ----------------------------------------------------------------- actions
\* DQue.Enqueue: the next record is nEnq + 1.
Enqueue(t) ==
    /\ thr[t].pc = "idle"
    /\ inst # "none"
    /\ IF QueueClosed THEN Refuse(t, "Enqueue")
       ELSE /\ nEnq < enqLimit
            /\ LET obj == nEnq + 1
                   o == EnqueueBody(files, heap, firstSegment, lastSegment,
                                    itemsPerSegment, turbo, obj)
                   written == ~o.panic /\ o.err # ErrNewSegment
               IN  /\ \E th \in (IF o.err = ErrNone THEN Signal(thr) ELSE {thr}) :
                          Finish(t, "Enqueue", o, th)
                   /\ nEnq' = IF written THEN nEnq + 1 ELSE nEnq
                   /\ strictEnq' = IF o.err = ErrNone /\ ~turbo
                                   THEN strictEnq \cup {obj} ELSE strictEnq
                   /\ sizeObs' = IF written THEN Observe(Count + 1) ELSE sizeObs
                   /\ UNCHANGED <<dirExists, itemsPerSegment, enqLimit, deqLog>>

\* DQue.Dequeue
Dequeue(t) ==
    /\ thr[t].pc = "idle"
    /\ inst # "none"
    /\ IF QueueClosed THEN Refuse(t, "Dequeue")
       ELSE LET o == DequeueBody(files, heap, firstSegment, lastSegment,
                                    itemsPerSegment, turbo)
            IN  /\ Finish(t, "Dequeue", o, thr)
                /\ deqLog' = IF o.val # NilObj THEN Append(deqLog, o.val) ELSE deqLog
                /\ sizeObs' = IF o.val # NilObj THEN Observe(Count - 1) ELSE sizeObs
                /\ UNCHANGED <<dirExists, itemsPerSegment, nEnq, enqLimit, strictEnq>>

\* DQue.Peek
Peek(t) ==
    /\ thr[t].pc = "idle"
    /\ inst # "none"
    /\ IF QueueClosed THEN Refuse(t, "Peek")
       ELSE /\ Finish(t, "Peek", PeekBody(files, heap, firstSegment, lastSegment), thr)
            /\ UNCHANGED <<dirExists, itemsPerSegment, nEnq, enqLimit, deqLog, strictEnq,
                           sizeObs>>

\* Prepend of the next k records, nEnq + 1 .. nEnq + k
Prepend(t, k) ==
    /\ thr[t].pc = "idle"
    /\ inst # "none"
    /\ IF QueueClosed THEN Refuse(t, "Prepend")
       ELSE /\ nEnq + k <= enqLimit
            /\ LET objs == [i \in 1..k |-> nEnq + i]
                   o == PrependBody(files, heap, firstSegment, lastSegment, objs)
               IN  /\ \E th \in (IF o.err = ErrNone THEN Signal(thr) ELSE {thr}) :
                          Finish(t, "Prepend", o, th)
                   /\ nEnq' = IF o.panic THEN nEnq ELSE nEnq + k
                   /\ sizeObs' = IF o.panic THEN sizeObs ELSE Observe(Count + k)
                   /\ UNCHANGED <<dirExists, itemsPerSegment, enqLimit, deqLog,
                                  strictEnq>>

\* DQue.Enqueue when file.Write fails inside add (a full disk, an I/O
\* error): k units of the frame, fewer than the whole frame, reach the file.
\* add drops Write's result, appends the record to the list and syncs.
EnqueueWriteFails(t) ==
    /\ thr[t].pc = "idle"
    /\ inst = "open"
    /\ nEnq < enqLimit
    /\ firstSegment # Nil
    /\ lastSegment # Nil
    /\ LET obj == nEnq + 1
           o == EnqueueBody(files, heap, firstSegment, lastSegment,
                            itemsPerSegment, turbo, obj)
           n == o.heap[o.last].number
           frame == DataFrame(obj)
       IN  /\ ~o.panic
           /\ o.err = ErrNone
           /\ \E k \in 0..(Len(frame) - 1) :
                  LET data == SubSeq(o.fs[n].data, 1,
                                     Len(o.fs[n].data) - Len(frame) + k)
                      fs1 == [o.fs EXCEPT ![n].data = data,
                                          ![n].synced = Min(@, Len(data))]
                  IN  Finish(t, "Enqueue", [o EXCEPT !.fs = fs1], thr)
           /\ nEnq' = nEnq + 1
           /\ strictEnq' = IF ~turbo THEN strictEnq \cup {obj} ELSE strictEnq
           /\ sizeObs' = Observe(Count + 1)
           /\ UNCHANGED <<dirExists, itemsPerSegment, enqLimit, deqLog>>

\* DQue.Dequeue when file.Write fails inside remove: no tombstone reaches
\* the file.  remove drops Write's result, pops the record and syncs.
DequeueWriteFails(t) ==
    /\ thr[t].pc = "idle"
    /\ inst = "open"
    /\ firstSegment # Nil
    /\ lastSegment # Nil
    /\ LET o == DequeueBody(files, heap, firstSegment, lastSegment,
                            itemsPerSegment, turbo)
           n == heap[firstSegment].number
       IN  /\ ~o.panic
           /\ o.err = ErrNone
           /\ o.fs[n].exists
           /\ LET data == SubSeq(o.fs[n].data, 1, Len(o.fs[n].data) - Len(Tombstone))
                  fs1 == [o.fs EXCEPT ![n].data = data,
                                      ![n].synced = Min(@, Len(data))]
              IN  Finish(t, "Dequeue", [o EXCEPT !.fs = fs1], thr)
           /\ deqLog' = Append(deqLog, o.val)
           /\ sizeObs' = Observe(Count - 1)
           /\ UNCHANGED <<dirExists, itemsPerSegment, nEnq, enqLimit, strictEnq>>

\* DQue.Dequeue when the head's file cannot be deleted (file.Close or
\* os.Remove fails inside delete): the record was removed and its tombstone
\* written, the reclamation test held, and Dequeue returns the record with
\* the error.  The file stays; the handle may or may not have been closed.
DequeueDeleteFails(t) ==
    /\ thr[t].pc = "idle"
    /\ inst = "open"
    /\ firstSegment # Nil
    /\ lastSegment # Nil
    /\ heap[firstSegment].objects # <<>>
    /\ LET obj == heap[firstSegment].objects[1]
           r == remove(files, heap[firstSegment])
       IN  /\ ~r.err
           /\ size(r.seg) = 0
           /\ sizeOnDisk(r.seg) >= itemsPerSegment
           /\ \E open \in BOOLEAN :
                  Finish(t, "Dequeue",
                         Outcome(r.fs,
                                 [heap EXCEPT ![firstSegment] =
                                      [r.seg EXCEPT !.file = @ /\ open]],
                                 firstSegment, lastSegment, obj, ErrInconsistent,
                                 FALSE),
                         thr)
           /\ deqLog' = Append(deqLog, obj)
           /\ sizeObs' = Observe(Count - 1)
           /\ UNCHANGED <<dirExists, itemsPerSegment, nEnq, enqLimit, strictEnq>>

\* TurboOn that switches the queue and the head but not the tail
TurboOn_HeadOnly(t) ==
    /\ thr[t].pc = "idle"
    /\ inst # "none"
    /\ IF QueueClosed THEN Refuse(t, "TurboOn")
       ELSE IF turbo
       THEN /\ res' = Result(t, "TurboOn", NilObj, ErrTurboOn)
            /\ UNCHANGED <<disk, mem, hist, thr>>
       ELSE IF firstSegment = Nil \/ lastSegment = Nil
       THEN /\ res' = Result(t, "TurboOn", NilObj, ErrPanic)
            /\ Die
            /\ UNCHANGED <<dirExists, files, itemsPerSegment, nEnq, enqLimit, deqLog,
                           strictEnq, sizeObs>>
       ELSE /\ turbo' = TRUE
            /\ heap' = [heap EXCEPT ![firstSegment] = turboOn(@)]
            /\ res' = Result(t, "TurboOn", NilObj, ErrNone)
            /\ UNCHANGED <<disk, inst, itemsPerSegment, firstSegment, lastSegment,
                           hist, thr>>

\* DQue.TurboOn (the closed check is the specification's)
TurboOn(t) ==
    /\ thr[t].pc = "idle"
    /\ inst # "none"
    /\ IF QueueClosed THEN Refuse(t, "TurboOn")
       ELSE IF turbo
       THEN /\ res' = Result(t, "TurboOn", NilObj, ErrTurboOn)
            /\ UNCHANGED <<disk, mem, hist, thr>>
       ELSE IF firstSegment = Nil \/ lastSegment = Nil
       THEN /\ res' = Result(t, "TurboOn", NilObj, ErrPanic)
            /\ Die
            /\ UNCHANGED <<dirExists, files, itemsPerSegment, nEnq, enqLimit, deqLog,
                           strictEnq, sizeObs>>
       ELSE /\ turbo' = TRUE
            /\ heap' = [r \in SegRefs |-> IF r \in {firstSegment, lastSegment}
                                          THEN turboOn(heap[r]) ELSE heap[r]]
            /\ res' = Result(t, "TurboOn", NilObj, ErrNone)
            /\ UNCHANGED <<disk, inst, itemsPerSegment, firstSegment, lastSegment,
                           hist, thr>>

\* DQue.TurboOff: the head, then the tail, then the queue's flag; an error
\* of either segment returns before the flag is cleared.
TurboOffBody(fs, h, first, last) ==
    LET f == turboOff(fs, h[first])
        h1 == [h EXCEPT ![first] = f.seg]
        l == turboOff(f.fs, h1[last])
        h2 == [h1 EXCEPT ![last] = l.seg]
    IN  IF f.err THEN [fs |-> fs, heap |-> h, err |-> TRUE]
        ELSE IF l.err THEN [fs |-> f.fs, heap |-> h1, err |-> TRUE]
        ELSE [fs |-> l.fs, heap |-> h2, err |-> FALSE]

\* TurboOff that does not look at the queue's flag first
TurboOff_NoCheck(t) ==
    /\ thr[t].pc = "idle"
    /\ inst # "none"
    /\ IF QueueClosed THEN Refuse(t, "TurboOff")
       ELSE IF firstSegment = Nil \/ lastSegment = Nil
       THEN /\ res' = Result(t, "TurboOff", NilObj, ErrPanic)
            /\ Die
            /\ UNCHANGED <<dirExists, files, itemsPerSegment, nEnq, enqLimit, deqLog,
                           strictEnq, sizeObs>>
       ELSE LET b == TurboOffBody(files, heap, firstSegment, lastSegment)
            IN  /\ files' = b.fs
                /\ heap' = b.heap
                /\ turbo' = IF b.err THEN turbo ELSE FALSE
                /\ res' = Result(t, "TurboOff", NilObj,
                                 IF b.err THEN ErrInconsistent ELSE ErrNone)
                /\ UNCHANGED <<dirExists, lockHeld, inst, itemsPerSegment,
                               firstSegment, lastSegment, hist, thr>>

TurboOff(t) ==
    /\ thr[t].pc = "idle"
    /\ inst # "none"
    /\ IF QueueClosed THEN Refuse(t, "TurboOff")
       ELSE IF ~turbo
       THEN /\ res' = Result(t, "TurboOff", NilObj, ErrTurboOff)
            /\ UNCHANGED <<disk, mem, hist, thr>>
       ELSE IF firstSegment = Nil \/ lastSegment = Nil
       THEN /\ res' = Result(t, "TurboOff", NilObj, ErrPanic)
            /\ Die
            /\ UNCHANGED <<dirExists, files, itemsPerSegment, nEnq, enqLimit, deqLog,
                           strictEnq, sizeObs>>
       ELSE LET b == TurboOffBody(files, heap, firstSegment, lastSegment)
            IN  /\ files' = b.fs
                /\ heap' = b.heap
                /\ turbo' = IF b.err THEN turbo ELSE FALSE
                /\ res' = Result(t, "TurboOff", NilObj,
                                 IF b.err THEN ErrInconsistent ELSE ErrNone)
                /\ UNCHANGED <<dirExists, lockHeld, inst, itemsPerSegment,
                               firstSegment, lastSegment, hist, thr>>

\* DQue.TurboSync: the head, then the tail
TurboSyncBody(fs, h, first, last) ==
    LET f == turboSync(fs, h[first])
        h1 == [h EXCEPT ![first] = f.seg]
        l == turboSync(f.fs, h1[last])
        h2 == [h1 EXCEPT ![last] = l.seg]
    IN  IF f.err THEN [fs |-> fs, heap |-> h, err |-> TRUE]
        ELSE IF l.err THEN [fs |-> f.fs, heap |-> h1, err |-> TRUE]
        ELSE [fs |-> l.fs, heap |-> h2, err |-> FALSE]

TurboSync(t) ==
    /\ thr[t].pc = "idle"
    /\ inst # "none"
    /\ IF QueueClosed THEN Refuse(t, "TurboSync")
       ELSE IF ~turbo
       THEN /\ res' = Result(t, "TurboSync", NilObj, ErrTurboSync)
            /\ UNCHANGED <<disk, mem, hist, thr>>
       ELSE IF firstSegment = Nil \/ lastSegment = Nil
       THEN /\ res' = Result(t, "TurboSync", NilObj, ErrPanic)
            /\ Die
            /\ UNCHANGED <<dirExists, files, itemsPerSegment, nEnq, enqLimit, deqLog,
                           strictEnq, sizeObs>>
       ELSE LET b == TurboSyncBody(files, heap, firstSegment, lastSegment)
            IN  /\ files' = b.fs
                /\ heap' = b.heap
                /\ res' = Result(t, "TurboSync", NilObj,
                                 IF b.err THEN ErrInconsistent ELSE ErrNone)
                /\ UNCHANGED <<dirExists, lockHeld, inst, itemsPerSegment, turbo,
                               firstSegment, lastSegment, hist, thr>>

\* Close: refuse when closed; flush both segments, close their handles,
\* release the directory lock, wake every waiter.
CloseSeg(fs, seg) == [fs |-> Sync(fs, seg), seg |-> [seg EXCEPT !.maybeDirty = FALSE,
                                                               !.file = FALSE]]

Close(t) ==
    /\ thr[t].pc = "idle"
    /\ inst # "none"
    /\ IF QueueClosed THEN Refuse(t, "Close")
       ELSE /\ inst' = "closed"
            /\ lockHeld' = FALSE
            /\ IF firstSegment = Nil \/ lastSegment = Nil
               THEN UNCHANGED <<files, heap>>
               ELSE LET f == CloseSeg(files, heap[firstSegment])
                        h1 == [heap EXCEPT ![firstSegment] = f.seg]
                        l == CloseSeg(f.fs, heap[lastSegment])
                    IN  /\ files' = IF firstSegment = lastSegment THEN f.fs ELSE l.fs
                        /\ heap' = IF firstSegment = lastSegment THEN h1
                                   ELSE [h1 EXCEPT ![lastSegment] = l.seg]
            /\ thr' = Broadcast(thr)
            /\ res' = Result(t, "Close", NilObj, ErrNone)
            /\ UNCHANGED <<dirExists, itemsPerSegment, turbo, firstSegment,
                           lastSegment, hist>>

\* New and Open build the instance from the directory.  load's error is
\* dropped by both (q.load() is called for its effect only), so a failed load
\* still returns a queue, with the segments load did not reach left nil.
Install(t, opname, o, cap) ==
    /\ files' = o.fs
    /\ res' = Result(t, opname, NilObj, IF o.panic THEN ErrPanic ELSE ErrNone)
    /\ IF o.panic
       THEN Die
       ELSE /\ inst' = "open"
            /\ lockHeld' = TRUE
            /\ turbo' = FALSE
            /\ heap' = Gc(o.heap, o.first, o.last)
            /\ firstSegment' = o.first
            /\ lastSegment' = o.last
            /\ UNCHANGED <<thr, crashes>>
    /\ itemsPerSegment' = cap
    /\ UNCHANGED <<nEnq, enqLimit, deqLog, strictEnq, sizeObs>>

\* New that does not look whether the queue directory exists
New_NoExistsCheck(t, cap) ==
    /\ thr[t].pc = "idle"
    /\ dirExists' = TRUE
    /\ Install(t, "New", qload(files, FALSE), cap)

\* dque.New
New(t, cap) ==
    /\ thr[t].pc = "idle"
    /\ IF dirExists
       THEN /\ res' = Result(t, "New", NilObj, ErrExists)
            /\ UNCHANGED <<disk, mem, hist, thr>>
       ELSE /\ dirExists' = TRUE
            /\ Install(t, "New", qload(files, FALSE), cap)

\* dque.Open; the directory lock (the specification's) refuses a second
\* instance while one is open.
OpenWith(t, cap) ==
    /\ thr[t].pc = "idle"
    /\ IF ~dirExists
       THEN /\ res' = Result(t, "Open", NilObj, ErrNotExist)
            /\ UNCHANGED <<disk, mem, hist, thr>>
       ELSE IF lockHeld
       THEN /\ res' = Result(t, "Open", NilObj, ErrLocked)
            /\ UNCHANGED <<disk, mem, hist, thr>>
       ELSE /\ Install(t, "Open", qload(files, FALSE), cap)
            /\ UNCHANGED dirExists

\* Open called with the items_per_segment the queue was made with
Open(t) == OpenWith(t, itemsPerSegment)

\* NewOrOpen that takes New's path whether or not the queue exists
NewOrOpen_AlwaysNew(t, cap) ==
    /\ thr[t].pc = "idle"
    /\ IF dirExists
       THEN /\ res' = Result(t, "NewOrOpen", NilObj, ErrExists)
            /\ UNCHANGED <<disk, mem, hist, thr>>
       ELSE /\ dirExists' = TRUE
            /\ Install(t, "NewOrOpen", qload(files, FALSE), cap)

\* dque.NewOrOpen: Open when the queue directory exists, New when not
NewOrOpen(t, cap) ==
    /\ thr[t].pc = "idle"
    /\ IF dirExists
       THEN IF lockHeld
            THEN /\ res' = Result(t, "NewOrOpen", NilObj, ErrLocked)
                 /\ UNCHANGED <<disk, mem, hist, thr>>
            ELSE /\ Install(t, "NewOrOpen", qload(files, FALSE), cap)
                 /\ UNCHANGED dirExists
       ELSE /\ dirExists' = TRUE
            /\ Install(t, "NewOrOpen", qload(files, FALSE), cap)

\* The process is killed.  Each file keeps its synced units and any number
\* of the units written after the last sync.
CutFile(f, k) == [exists |-> f.exists, data |-> SubSeq(f.data, 1, k), synced |-> k]

RECURSIVE Cuts(_, _)
Cuts(fs, n) ==
    IF n = 0 THEN {fs}
    ELSE UNION {{[g EXCEPT ![n] = CutFile(fs[n], k)] : k \in fs[n].synced..Len(fs[n].data)} :
                g \in Cuts(fs, n - 1)}

Crash ==
    /\ inst # "none"
    /\ crashes < MaxCrash
    /\ \E fs \in Cuts(files, MaxSegNo) : files' = fs
    /\ Die
    /\ UNCHANGED <<dirExists, itemsPerSegment, res, nEnq, enqLimit, deqLog, strictEnq, sizeObs>>

\* The process is killed inside Enqueue: the tail has been rolled if it was
\* full and add has issued its writes, but _sync has not returned.  The file
\* keeps any prefix of the frame (its header alone, for a kill between the
\* two writes).  The record's number is used up; the call does not return.
EnqueueKilled(t) ==
    /\ thr[t].pc = "idle"
    /\ inst = "open"
    /\ lastSegment # Nil
    /\ nEnq < enqLimit
    /\ crashes < MaxCrash
    /\ LET obj == nEnq + 1
           full == sizeOnDisk(heap[lastSegment]) >= itemsPerSegment
           n == newQueueSegment(files, heap[lastSegment].number + 1, turbo)
           fs0 == IF full THEN n.fs ELSE files
           seg0 == IF full THEN n.seg ELSE heap[lastSegment]
       IN  /\ full => ~n.err
           /\ \E fs \in Cuts(Write(fs0, seg0, DataFrame(obj)), MaxSegNo) : files' = fs
    /\ Die
    /\ nEnq' = nEnq + 1
    /\ UNCHANGED <<dirExists, itemsPerSegment, res, enqLimit, deqLog, strictEnq, sizeObs>>

\* ------------------------------------------------- blocking dequeue and peek
\* One turn of the loop of DequeueBlock / PeekBlock, with the mutex held:
\* closed ends the call, empty waits on the condition, otherwise the call
\* returns what Dequeue / Peek returns.
BlockTurn(t, opname) ==
    IF QueueClosed THEN Refuse(t, opname)
    ELSE LET o == IF opname = "DequeueBlock"
                  THEN DequeueBody(files, heap, firstSegment, lastSegment,
                                   itemsPerSegment, turbo)
                  ELSE PeekBody(files, heap, firstSegment, lastSegment)
         IN  IF o.err = ErrEmpty
             THEN /\ thr' = [thr EXCEPT ![t] = [Idle EXCEPT !.pc = "wait", !.op = opname]]
                  /\ UNCHANGED <<disk, mem, hist, res>>
             ELSE /\ Finish(t, opname, o, [thr EXCEPT ![t] = Idle])
                  /\ deqLog' = IF opname = "DequeueBlock" /\ o.val # NilObj
                               THEN Append(deqLog, o.val) ELSE deqLog
                  /\ sizeObs' = IF opname = "DequeueBlock" /\ o.val # NilObj
                                THEN Observe(Count - 1) ELSE sizeObs
                  /\ UNCHANGED <<dirExists, itemsPerSegment, nEnq, enqLimit, strictEnq>>

DequeueBlock(t) ==
    /\ thr[t].pc = "idle"
    /\ inst # "none"
    /\ BlockTurn(t, "DequeueBlock")

PeekBlock(t) ==
    /\ thr[t].pc = "idle"
    /\ inst # "none"
    /\ BlockTurn(t, "PeekBlock")

\* A woken waiter takes the mutex again and runs the loop once more.
Wake(t) ==
    /\ thr[t].pc = "woken"
    /\ BlockTurn(t, thr[t].op)

\* --------------------------------------------------------------- DQue.Size
\* Size takes no lock and does not look whether the queue is closed.  It compares the segment numbers, then reads the
\* head's size, then the tail's, each read seeing the queue as it then is.
SizeCall(t) ==
    /\ thr[t].pc = "idle"
    /\ inst # "none"
    /\ firstSegment # Nil /\ lastSegment # Nil
    /\ LET a == heap[firstSegment].number
           b == heap[lastSegment].number
       IN  thr' = [thr EXCEPT ![t] =
                     IF a = b THEN [Idle EXCEPT !.pc = "szSame", !.op = "Size"]
                     ELSE [Idle EXCEPT !.pc = "szFirst", !.op = "Size",
                                       !.between = IF a = b + 1 THEN 0 ELSE b - a - 1]]
    /\ sizeObs' = [sizeObs EXCEPT ![t] = {Count}]
    /\ UNCHANGED <<disk, mem, res, nEnq, enqLimit, deqLog, strictEnq, crashes>>

SizeSame(t) ==
    /\ thr[t].pc = "szSame"
    /\ res' = [Result(t, "Size", size(heap[firstSegment]), ErrNone)
                EXCEPT !.seen = sizeObs[t]]
    /\ thr' = [thr EXCEPT ![t] = Idle]
    /\ sizeObs' = [sizeObs EXCEPT ![t] = {}]
    /\ UNCHANGED <<disk, mem, nEnq, enqLimit, deqLog, strictEnq, crashes>>

SizeFirst(t) ==
    /\ thr[t].pc = "szFirst"
    /\ thr' = [thr EXCEPT ![t].pc = "szLast", ![t].acc = size(heap[firstSegment])]
    /\ UNCHANGED <<disk, mem, hist, res>>

SizeLast(t) ==
    /\ thr[t].pc = "szLast"
    /\ res' = [Result(t, "Size", thr[t].acc + (thr[t].between * itemsPerSegment)
                                     + size(heap[lastSegment]), ErrNone)
                EXCEPT !.seen = sizeObs[t]]
    /\ thr' = [thr EXCEPT ![t] = Idle]
    /\ sizeObs' = [sizeObs EXCEPT ![t] = {}]
    /\ UNCHANGED <<disk, mem, nEnq, enqLimit, deqLog, strictEnq, crashes>>

\* ------------------------------------------- the mode switches, step by step
\* TurboOn, TurboOff and TurboSync take no mutex, so their statements
\* interleave with the other threads' calls.  Each action is one statement;
\* q.firstSegment and q.lastSegment are read when the statement runs.
TurboOnStart(t) ==
    /\ thr[t].pc = "idle"
    /\ inst = "open"
    /\ firstSegment # Nil /\ lastSegment # Nil
    /\ IF turbo
       THEN /\ res' = Result(t, "TurboOn", NilObj, ErrTurboOn)
            /\ UNCHANGED <<disk, mem, hist, thr>>
       ELSE /\ turbo' = TRUE
            /\ thr' = [thr EXCEPT ![t] = [Idle EXCEPT !.pc = "tonFirst", !.op = "TurboOn"]]
            /\ UNCHANGED <<disk, inst, itemsPerSegment, firstSegment, lastSegment,
                           heap, hist, res>>

TurboOnFirst(t) ==
    /\ thr[t].pc = "tonFirst"
    /\ heap' = [heap EXCEPT ![firstSegment] = turboOn(@)]
    /\ thr' = [thr EXCEPT ![t].pc = "tonLast"]
    /\ UNCHANGED <<disk, inst, itemsPerSegment, turbo, firstSegment, lastSegment,
                   hist, res>>

TurboOnLast(t) ==
    /\ thr[t].pc = "tonLast"
    /\ heap' = [heap EXCEPT ![lastSegment] = turboOn(@)]
    /\ res' = Result(t, "TurboOn", NilObj, ErrNone)
    /\ thr' = [thr EXCEPT ![t] = Idle]
    /\ UNCHANGED <<disk, inst, itemsPerSegment, turbo, firstSegment, lastSegment,
                   hist>>

TurboOffStart(t) ==
    /\ thr[t].pc = "idle"
    /\ inst = "open"
    /\ firstSegment # Nil /\ lastSegment # Nil
    /\ IF ~turbo
       THEN /\ res' = Result(t, "TurboOff", NilObj, ErrTurboOff)
            /\ UNCHANGED <<disk, mem, hist, thr>>
       ELSE /\ thr' = [thr EXCEPT ![t] = [Idle EXCEPT !.pc = "toffFirst",
                                                      !.op = "TurboOff"]]
            /\ UNCHANGED <<disk, mem, hist, res>>

\* q.firstSegment.turboOff() or q.lastSegment.turboOff(): on an error
\* TurboOff returns it, else it goes on to the next statement.
TurboOffSeg(t, ref, next) ==
    LET o == turboOff(files, heap[ref])
    IN  /\ files' = o.fs
        /\ heap' = [heap EXCEPT ![ref] = o.seg]
        /\ IF o.err
           THEN /\ res' = Result(t, "TurboOff", NilObj, ErrInconsistent)
                /\ thr' = [thr EXCEPT ![t] = Idle]
           ELSE /\ thr' = [thr EXCEPT ![t].pc = next]
                /\ UNCHANGED res
        /\ UNCHANGED <<dirExists, lockHeld, inst, itemsPerSegment, turbo, firstSegment,
                       lastSegment, hist>>

TurboOffFirst(t) ==
    /\ thr[t].pc = "toffFirst"
    /\ TurboOffSeg(t, firstSegment, "toffLast")

TurboOffLast(t) ==
    /\ thr[t].pc = "toffLast"
    /\ TurboOffSeg(t, lastSegment, "toffFlag")

TurboOffFlag(t) ==
    /\ thr[t].pc = "toffFlag"
    /\ turbo' = FALSE
    /\ res' = Result(t, "TurboOff", NilObj, ErrNone)
    /\ thr' = [thr EXCEPT ![t] = Idle]
    /\ UNCHANGED <<disk, inst, itemsPerSegment, firstSegment, lastSegment, heap, hist>>

\* ------------------------------------------------ one segment on its own
\* The segment of file 1 driven directly, as the segment tests drive it:
\* add of any record, remove, and the mode switches, in any order.
SegAdd(r) ==
    /\ Len(files[1].data) + Len(DataFrame(r)) <= MaxUnits
    /\ LET a == add(files, heap["s1"], r)
       IN  /\ files' = a.fs
           /\ heap' = [heap EXCEPT !["s1"] = a.seg]
           /\ res' = Result(MainThread, "add", NilObj,
                            IF a.err THEN ErrInconsistent ELSE ErrNone)
    /\ UNCHANGED <<dirExists, lockHeld, inst, itemsPerSegment, turbo, firstSegment,
                   lastSegment, thr, hist>>

SegRemove ==
    /\ Len(files[1].data) + Len(Tombstone) <= MaxUnits
    /\ IF heap["s1"].objects = <<>>
       THEN /\ res' = Result(MainThread, "remove", NilObj, errEmptySegment)
            /\ UNCHANGED <<files, heap>>
       ELSE LET r == remove(files, heap["s1"])
            IN  /\ files' = r.fs
                /\ heap' = [heap EXCEPT !["s1"] = r.seg]
                /\ res' = Result(MainThread, "remove", heap["s1"].objects[1],
                                 IF r.err THEN ErrInconsistent ELSE ErrNone)
    /\ UNCHANGED <<dirExists, lockHeld, inst, itemsPerSegment, turbo, firstSegment,
                   lastSegment, thr, hist>>

SegTurboOn ==
    /\ ~heap["s1"].turbo
    /\ heap' = [heap EXCEPT !["s1"] = turboOn(@)]
    /\ res' = Result(MainThread, "turboOn", NilObj, ErrNone)
    /\ UNCHANGED <<disk, inst, itemsPerSegment, turbo, firstSegment, lastSegment,
                   thr, hist>>

SegTurboOff ==
    /\ heap["s1"].turbo
    /\ LET o == turboOff(files, heap["s1"])
       IN  /\ files' = o.fs
           /\ heap' = [heap EXCEPT !["s1"] = o.seg]
           /\ res' = Result(MainThread, "turboOff", NilObj,
                            IF o.err THEN ErrInconsistent ELSE ErrNone)
    /\ UNCHANGED <<dirExists, lockHeld, inst, itemsPerSegment, turbo, firstSegment,
                   lastSegment, thr, hist>>

\* The mode operations on a segment in any mode, and the segment's delete
\* (after which the handle is nil and every sync fails).
SegTurboOffAny ==
    /\ LET o == turboOff(files, heap["s1"])
       IN  /\ files' = o.fs
           /\ heap' = [heap EXCEPT !["s1"] = o.seg]
           /\ res' = Result(MainThread, "turboOff", NilObj,
                            IF o.err THEN ErrInconsistent ELSE ErrNone)
    /\ UNCHANGED <<dirExists, lockHeld, inst, itemsPerSegment, turbo, firstSegment,
                   lastSegment, thr, hist>>

SegTurboSync ==
    /\ LET o == turboSync(files, heap["s1"])
       IN  /\ files' = o.fs
           /\ heap' = [heap EXCEPT !["s1"] = o.seg]
           /\ res' = Result(MainThread, "turboSync", NilObj,
                            IF o.err THEN ErrInconsistent ELSE ErrNone)
    /\ UNCHANGED <<dirExists, lockHeld, inst, itemsPerSegment, turbo, firstSegment,
                   lastSegment, thr, hist>>

SegDelete ==
    /\ heap["s1"].file
    /\ LET d == delete(files, heap["s1"])
       IN  /\ files' = d.fs
           /\ heap' = [heap EXCEPT !["s1"] = d.seg]
    /\ res' = Result(MainThread, "delete", NilObj, ErrNone)
    /\ UNCHANGED <<dirExists, lockHeld, inst, itemsPerSegment, turbo, firstSegment,
                   lastSegment, thr, hist>>

\* ------------------------------------------------------------ specifications
\* Before New: no queue directory; caps is the set the caller's
\* itemsPerSegment argument is drawn from.
InitFresh(caps) ==
    /\ dirExists = FALSE
    /\ files = [n \in 1..MaxSegNo |-> NoFile]
    /\ lockHeld = FALSE
    /\ inst = "none"
    /\ itemsPerSegment \in caps
    /\ turbo = FALSE
    /\ firstSegment = Nil
    /\ lastSegment = Nil
    /\ heap = EmptyHeap
    /\ thr = [t \in Threads |-> Idle]
    /\ res = NoRes
    /\ nEnq = 0
    /\ enqLimit = MaxEnq
    /\ deqLog = <<>>
    /\ strictEnq = {}
    /\ crashes = 0
    /\ sizeObs = [t \in Threads |-> {}]

Init == InitFresh(Caps)

\* One caller at a time, with restarts: New, the queue's operations, Close,
\* Open, and the process being killed.
DoNew == New(MainThread, itemsPerSegment)
DoOpen == Open(MainThread)
DoEnqueue == Enqueue(MainThread)
DoDequeue == Dequeue(MainThread)
DoPeek == Peek(MainThread)
DoTurboOn == TurboOn(MainThread)
DoTurboOff == TurboOff(MainThread)
DoTurboSync == TurboSync(MainThread)
DoClose == Close(MainThread)
DoEnqueueKilled == EnqueueKilled(MainThread)

Next ==
    \/ DoNew
    \/ DoOpen
    \/ DoEnqueue
    \/ DoDequeue
    \/ DoPeek
    \/ DoTurboOn
    \/ DoTurboOff
    \/ DoTurboSync
    \/ DoClose
    \/ Crash
    \/ DoEnqueueKilled

Spec == Init /\ [][Next]_vars

\* The ways to get a queue: New, Open and NewOrOpen, on a directory that a
\* queue has or has not been made in, used, closed or abandoned by a kill.
DoNewOrOpen == NewOrOpen(MainThread, itemsPerSegment)

NextOpen ==
    \/ DoNew
    \/ DoOpen
    \/ DoNewOrOpen
    \/ DoEnqueue
    \/ DoDequeue
    \/ DoClose
    \/ Crash

SpecOpen == Init /\ [][NextOpen]_vars

\* One caller that enqueues, dequeues and prepends, on caps up to
\* MaxCapPrepend.
InitPrepend == InitFresh(1..MaxCapPrepend)

DoPrepend == \E k \in 1..MaxPrepend : Prepend(MainThread, k)

NextPrepend ==
    \/ DoNew
    \/ DoEnqueue
    \/ DoDequeue
    \/ DoPrepend

SpecPrepend == InitPrepend /\ [][NextPrepend]_vars

\* One caller that closes the queue and opens it again with any cap.
DoReopen == \E cap \in Caps : OpenWith(MainThread, cap)

NextRecap ==
    \/ DoNew
    \/ DoReopen
    \/ DoEnqueue
    \/ DoDequeue
    \/ DoClose

SpecRecap == Init /\ [][NextRecap]_vars

\* One caller on a disk whose writes can fail.
DoEnqueueWriteFails == EnqueueWriteFails(MainThread)
DoDequeueWriteFails == DequeueWriteFails(MainThread)

NextWriteFail ==
    \/ DoNew
    \/ DoEnqueue
    \/ DoDequeue
    \/ DoEnqueueWriteFails
    \/ DoDequeueWriteFails

SpecWriteFail == Init /\ [][NextWriteFail]_vars

\* One caller, in strict or turbo mode and with restarts, on a directory
\* whose files may fail to be deleted.
DoDequeueDeleteFails == DequeueDeleteFails(MainThread)

NextReclaimFail ==
    \/ DoNew
    \/ DoOpen
    \/ DoEnqueue
    \/ DoDequeue
    \/ DoTurboOn
    \/ Crash
    \/ DoDequeueDeleteFails

SpecReclaimFail == Init /\ [][NextReclaimFail]_vars

\* One caller that also asks for the size, before and after Close.
DoSize ==
    \/ SizeCall(MainThread)
    \/ SizeSame(MainThread)
    \/ SizeFirst(MainThread)
    \/ SizeLast(MainThread)

NextSize ==
    \/ DoNew
    \/ DoOpen
    \/ DoEnqueue
    \/ DoDequeue
    \/ DoClose
    \/ DoSize

SpecSize == Init /\ [][NextSize]_vars

\* The same caller passing itemsPerSegment = 0 to New and Open.
InitZero == InitFresh({0})

SpecZero == InitZero /\ [][Next]_vars

\* Several threads on one open queue: producers, blocking and non-blocking
\* consumers, Size callers and a closer.
InitOpen(limit) ==
    /\ dirExists = TRUE
    /\ itemsPerSegment \in Caps
    /\ files = [n \in 1..MaxSegNo |-> IF n = 1 THEN newQueueSegment(
                   [m \in 1..MaxSegNo |-> NoFile], 1, FALSE).fs[1] ELSE NoFile]
    /\ lockHeld = TRUE
    /\ inst = "open"
    /\ turbo = FALSE
    /\ firstSegment = "s1"
    /\ lastSegment = "s1"
    /\ heap = qload([n \in 1..MaxSegNo |-> NoFile], FALSE).heap
    /\ thr = [t \in Threads |-> Idle]
    /\ res = NoRes
    /\ nEnq = 0
    /\ enqLimit = limit
    /\ deqLog = <<>>
    /\ strictEnq = {}
    /\ crashes = 0
    /\ sizeObs = [t \in Threads |-> {}]

InitConc == InitOpen(MaxEnqConc)

NextConc ==
    \E t \in Threads :
        \/ Enqueue(t)
        \/ Dequeue(t)
        \/ DequeueBlock(t)
        \/ PeekBlock(t)
        \/ Wake(t)
        \/ SizeCall(t)
        \/ SizeSame(t)
        \/ SizeFirst(t)
        \/ SizeLast(t)
        \/ Close(t)

SpecConc == InitConc /\ [][NextConc]_vars

\* Threads that enqueue and dequeue (under the mutex) while others switch the
\* mode (without it), on an open queue.
ToggleThreads == 1..NumToggleThreads

NextToggle ==
    \E t \in ToggleThreads :
        \/ Enqueue(t)
        \/ Dequeue(t)
        \/ TurboOnStart(t)
        \/ TurboOnFirst(t)
        \/ TurboOnLast(t)
        \/ TurboOffStart(t)
        \/ TurboOffFirst(t)
        \/ TurboOffLast(t)
        \/ TurboOffFlag(t)
        \/ TurboSync(t)

SpecToggle == InitConc /\ [][NextToggle]_vars

\* Producers, blocking consumers and a closer on one open queue.
InitBlock == InitOpen(MaxEnqBlock)

NextBlock ==
    \E t \in Threads :
        \/ Enqueue(t)
        \/ DequeueBlock(t)
        \/ PeekBlock(t)
        \/ Wake(t)
        \/ Close(t)

SpecBlock == InitBlock /\ [][NextBlock]_vars

\* A woken waiter is scheduled again: the Go runtime runs every runnable
\* goroutine, and the mutex it needs is always released again.
FairSpecBlock == SpecBlock /\ \A t \in Threads : WF_vars(Wake(t))

\* One segment, any sequence of its operations.
InitSeg == InitOpen(0)

NextSeg ==
    \/ \E r \in Records : SegAdd(r)
    \/ SegRemove
    \/ SegTurboOn
    \/ SegTurboOff

SpecSeg == InitSeg /\ [][NextSeg]_vars

\* One segment, its operations and mode switches in any mode, and delete;
\* nothing is added to a deleted segment.
NextSegMode ==
    \/ \E r \in Records : heap["s1"].file /\ SegAdd(r)
    \/ SegRemove
    \/ SegTurboOn
    \/ SegTurboOffAny
    \/ SegTurboSync
    \/ SegDelete

SpecSegMode == InitSeg /\ [][NextSegMode]_vars

\* =================================================================== claims
Range(f) == {f[i] : i \in DOMAIN f}

Size == SizeOf(heap, firstSegment, lastSegment, itemsPerSegment)

\* The records a drain would return: the head's list, the records of the
\* files between head and tail, the tail's list.
RECURSIVE Middle(_, _, _)
Middle(fs, lo, hi) ==
    IF lo > hi THEN <<>>
    ELSE (IF fs[lo].exists THEN load(fs[lo].data, 1, <<>>, 0).objects ELSE <<>>)
         \o Middle(fs, lo + 1, hi)

Contents ==
    IF firstSegment = lastSegment THEN heap[firstSegment].objects
    ELSE heap[firstSegment].objects
         \o Middle(files, heap[firstSegment].number + 1, heap[lastSegment].number - 1)
         \o heap[lastSegment].objects

\* C1 FIFO: on a queue that has lost nothing to a crash, the k-th record a
\* Dequeue returns is the k-th record enqueued (record k), across tail
\* rollover, head reclamation and reopening.
C1_FIFO == crashes = 0 => \A k \in 1..Len(deqLog) : deqLog[k] = k

\* C1 witness: three records came out in order and the head has moved past
\* segment 2 (one head was replayed from disk) while a later segment is the tail.
C1_Witness ==
    /\ crashes = 0
    /\ inst = "open"
    /\ Len(deqLog) >= 3
    /\ heap[firstSegment].number >= 3
    /\ heap[lastSegment].number > heap[firstSegment].number

\* C2 Size accuracy: with the cap unchanged, Size() is the number of records
\* enqueued minus the number dequeued, whatever the segment layout.
C2_SizeAccurate == (crashes = 0 /\ inst = "open") => Size = nEnq - Len(deqLog)

\* C2 witness: a whole segment of two records lies unopened between head and
\* tail, after a dequeue.
C2_Witness ==
    /\ crashes = 0
    /\ inst = "open"
    /\ itemsPerSegment = 2
    /\ heap[lastSegment].number >= heap[firstSegment].number + 2
    /\ Len(deqLog) >= 1
    /\ Size = 4

\* C3 strict durability: once a drain that follows a crash has ended (Dequeue
\* answered empty, or the process died in Dequeue), every record whose
\* strict-mode Enqueue had returned nil has been returned, and the records
\* came out in their enqueue order.
C3_StrictDurable ==
    (crashes > 0 /\ res.op = "Dequeue" /\ res.err \in {ErrEmpty, ErrPanic})
        => /\ strictEnq \subseteq Range(deqLog)
           /\ \A i, j \in 1..Len(deqLog) : i < j => deqLog[i] < deqLog[j]

\* C4 reopen round trip: when a closed queue that no crash has touched is
\* opened again with the same cap, the new instance has the segment numbers,
\* the Size() and the remaining records, in order, of the instance that wrote
\* the files, and none of its records has been dequeued before.
C4_ReopenRoundTrip ==
    [][(inst = "closed" /\ inst' = "open" /\ crashes = 0)
          => /\ SegmentNumbers' = SegmentNumbers
             /\ Size' = Size
             /\ Contents' = Contents
             /\ Range(Contents') \cap Range(deqLog) = {}]_vars

\* C4 witness: a reopened queue whose head file holds a tombstone and whose
\* tail is a later segment.
C4_Witness ==
    /\ crashes = 0
    /\ inst = "open"
    /\ res.op = "Open"
    /\ res.err = ErrNone
    /\ Len(deqLog) >= 1
    /\ heap[firstSegment].removeCount >= 1
    /\ heap[firstSegment].objects # <<>>
    /\ heap[lastSegment].number > heap[firstSegment].number

\* C5 exactly-once delivery: with producers and blocking consumers running
\* concurrently, the records returned so far followed by the records still
\* in the queue are exactly the records enqueued, each once, in enqueue
\* order; hence no record is returned twice, none is lost, and the records of
\* one producer come out in that producer's order.
C5_ExactlyOnce == deqLog \o Contents = [k \in 1..nEnq |-> k]

\* C5 witness: a blocking dequeue of one thread has just returned the second
\* record while another thread is inside the blocking dequeue.
C5_Witness ==
    /\ inst = "open"
    /\ res.op = "DequeueBlock"
    /\ res.err = ErrNone
    /\ res.val = 2
    /\ Len(deqLog) = 2
    /\ \E u \in Threads \ {res.by} :
          thr[u].op = "DequeueBlock" /\ thr[u].pc \in {"wait", "woken"}

\* C6 Size under concurrency: the value a Size() call returns is a number of
\* records the queue held at some instant between the call and its return.
C6_SizeLinearizable == res.op = "Size" => res.val \in res.seen

C8_CloseWake ==
    /\ [](inst = "closed" => Waiters(thr) = {})
    /\ \A t \in Threads : (inst = "closed" /\ thr[t].pc = "woken") ~> (thr[t].pc = "idle")
    /\ [][\A t \in Threads :
            (inst = "closed" /\ thr[t].pc = "woken" /\ thr'[t].pc = "idle")
                => /\ res'.by = t
                   /\ res'.err = ErrQueueClosed
                   /\ res'.val = NilObj
                   /\ deqLog' = deqLog]_vars

\* C8 witness: Close has run while one thread was blocked in the blocking
\* dequeue and another in the blocking peek; both are woken, none has
\* returned yet.
C8_Witness ==
    /\ inst = "closed"
    /\ res.op = "Close"
    /\ res.err = ErrNone
    /\ \E t, u \in Threads :
          /\ thr[t].pc = "woken" /\ thr[t].op = "DequeueBlock"
          /\ thr[u].pc = "woken" /\ thr[u].op = "PeekBlock"

\* C9 no lost wake-up: under fair scheduling no thread stays blocked in the
\* blocking dequeue forever while the queue is open and holds a record.
C9_NoLostWakeup ==
    \A t \in Threads :
        []<>(~(/\ thr[t].pc = "wait"
               /\ thr[t].op = "DequeueBlock"
               /\ inst = "open"
               /\ Contents # <<>>))

Loaded == inst = "open" /\ firstSegment # Nil /\ lastSegment # Nil

\* C11 Dequeue on an empty queue: when Size() is 0, Dequeue returns the nil
\* record with ErrEmpty and changes neither the files (no tombstone) nor the
\* in-memory queue; Size() stays 0 and the segment numbers stay the same.
C11_EmptyDequeue ==
    [][(Loaded /\ Size = 0 /\ res' # res /\ res'.op = "Dequeue")
          => /\ res'.val = NilObj
             /\ res'.err = ErrEmpty
             /\ UNCHANGED <<disk, mem, deqLog>>
             /\ Size' = 0
             /\ SegmentNumbers' = SegmentNumbers]_vars

\* C11 witness: Dequeue has just answered empty on a queue that was used
\* before: its head file holds a frame and its tombstone and is below the cap.
C11_Witness ==
    /\ Loaded
    /\ crashes = 0
    /\ res.op = "Dequeue"
    /\ res.err = ErrEmpty
    /\ Size = 0
    /\ heap[firstSegment].removeCount >= 1
    /\ Len(files[heap[firstSegment].number].data) >= 3

\* C12 Peek is non-mutating: Peek leaves the files, the in-memory queue and
\* hence Size() and the segment numbers unchanged; on a non-empty queue it
\* returns, without error, the record the next Dequeue returns; on an empty
\* queue it returns the nil record with ErrEmpty.
C12_PeekNonMutating ==
    [][(Loaded /\ res' # res /\ res'.op = "Peek")
          => /\ UNCHANGED <<disk, mem, hist>>
             /\ Size' = Size
             /\ SegmentNumbers' = SegmentNumbers
             /\ (crashes = 0 /\ Size > 0)
                   => /\ res'.err = ErrNone
                      /\ res'.val = DequeueBody(files', heap', firstSegment', lastSegment',
                                                itemsPerSegment', turbo').val
                      /\ res'.val = Contents[1]
             /\ Size = 0 => (res'.err = ErrEmpty /\ res'.val = NilObj)]_vars

\* C12 witness: Peek has just returned record 2 after record 1 was dequeued,
\* on a queue whose tail is a later segment than its head.
C12_Witness ==
    /\ Loaded
    /\ crashes = 0
    /\ res.op = "Peek"
    /\ res.err = ErrNone
    /\ res.val = 2
    /\ heap[lastSegment].number > heap[firstSegment].number
    /\ deqLog = <<1>>

\* The number of tombstone frames in a file made of complete frames.
RECURSIVE Tombstones(_, _)
Tombstones(data, pos) ==
    IF pos > Len(data) THEN 0
    ELSE IF data[pos] = 0 THEN 1 + Tombstones(data, pos + 1)
    ELSE Tombstones(data, pos + 1 + data[pos])

\* C13 replay correctness: after any sequence of add and remove on a segment,
\* opening its file succeeds and rebuilds a live list equal to the writing
\* segment's list, in order, and a removeCount equal to the number of
\* tombstones in the file.
C13_Replay ==
    LET o == openQueueSegment(files, 1, FALSE)
    IN  /\ ~o.err
        /\ ~o.panic
        /\ o.seg.objects = heap["s1"].objects
        /\ o.seg.removeCount = Tombstones(files[1].data, 1)
        /\ o.seg.removeCount = heap["s1"].removeCount

\* C13 witness: a file in which an add follows a remove: a tombstone, two
\* different live records of different encoded length, the last frame a data
\* frame.
C13_Witness ==
    /\ res.op = "add"
    /\ heap["s1"].removeCount >= 1
    /\ Len(heap["s1"].objects) >= 2
    /\ GobLen(heap["s1"].objects[1]) # GobLen(heap["s1"].objects[2])
    /\ Tombstones(files[1].data, 1) = 1

\* A file is a concatenation of complete frames: every header is followed
\* by its whole payload, and every payload decodes.
RECURSIVE WellFormed(_, _)
WellFormed(data, pos) ==
    IF pos > Len(data) THEN TRUE
    ELSE IF data[pos] = 0 THEN WellFormed(data, pos + 1)
    ELSE /\ pos + data[pos] <= Len(data)
         /\ LET gobBytes == SubSeq(data, pos + 1, pos + data[pos])
            IN  gobBytes = Encode(gobBytes[1])
         /\ WellFormed(data, pos + 1 + data[pos])

\* C14 corruption detection: opening a segment file that is not a
\* concatenation of complete frames fails with an error.
C14_CorruptionDetected ==
    \A n \in DOMAIN files :
        (files[n].exists /\ ~WellFormed(files[n].data, 1))
            => openQueueSegment(files, n, FALSE).err

\* C15 no half-loaded queue: a queue that New or Open has returned has
\* both its head and its tail segment set.
C15_NoUnsetSegment == inst = "open" => (firstSegment # Nil /\ lastSegment # Nil)

\* The number of data frames (headers above zero) in a file.
RECURSIVE DataFrames(_, _)
DataFrames(data, pos) ==
    IF pos > Len(data) THEN 0
    ELSE IF data[pos] = 0 THEN DataFrames(data, pos + 1)
    ELSE 1 + DataFrames(data, pos + 1 + data[pos])

\* C16 rollover bound as the code has it: no segment file holds more than
\* items_per_segment data frames, nor more tombstones than data frames; a
\* file may hold up to twice items_per_segment frames in all.
C16_DataFrameBound ==
    \A n \in DOMAIN files :
        files[n].exists
            => /\ DataFrames(files[n].data, 1) <= itemsPerSegment
               /\ Tombstones(files[n].data, 1) <= DataFrames(files[n].data, 1)

\* C16 witness: a file of a queue with cap 2 that holds two data frames
\* and a tombstone (three frames), after an Enqueue that followed a Dequeue.
C16_Witness ==
    /\ inst = "open"
    /\ crashes = 0
    /\ itemsPerSegment = 2
    /\ res.op = "Enqueue"
    /\ \E n \in DOMAIN files :
          /\ files[n].exists
          /\ DataFrames(files[n].data, 1) = 2
          /\ Tombstones(files[n].data, 1) >= 1

\* C16 as stated: no segment file holds more than items_per_segment frames,
\* data frames and tombstones counted alike.
C16_FrameBound ==
    \A n \in DOMAIN files :
        files[n].exists
            => DataFrames(files[n].data, 1) + Tombstones(files[n].data, 1)
                   <= itemsPerSegment

\* C17 reclamation: on a never-crashed queue with a constant cap, once as
\* many records have been dequeued as enqueued, and more than the cap, at
\* most two segment files remain; and at any time no file numbered below
\* the head remains.
C17_Reclaimed ==
    (crashes = 0 /\ inst # "none")
        => /\ (nEnq = Len(deqLog) /\ nEnq > itemsPerSegment)
                 => Cardinality(SegFiles(files)) <= 2
           /\ \A n \in SegFiles(files) : n >= heap[firstSegment].number

\* C17 witness: four records went in and came out of a queue with cap 1 or 2,
\* the last Dequeue reclaiming a head numbered 2 or more.
C17_Witness ==
    /\ crashes = 0
    /\ inst = "open"
    /\ res.op = "Dequeue"
    /\ res.err = ErrNone
    /\ nEnq = 4
    /\ Len(deqLog) = 4
    /\ heap[firstSegment].number >= 3
    /\ heap[firstSegment].removeCount = 0

\* C18 relaxed-mode flush: right after a successful TurboSync or TurboOff no
\* segment file of the queue has writes that are not synced.
C18_AllFlushed ==
    (res.op \in {"TurboSync", "TurboOff"} /\ res.err = ErrNone)
        => \A n \in DOMAIN files :
               files[n].exists => files[n].synced = Len(files[n].data)

\* C19 toggles rejected in the target state: a queue New has returned is in
\* strict mode, as are its segments; TurboOn on a turbo queue, TurboOff on a
\* strict queue and TurboSync on a strict queue each fail with their error
\* and leave the queue's mode, both segments and the files unchanged.
C19_TogglesRejected ==
    [][/\ (res' # res /\ res'.op = "New" /\ res'.err = ErrNone)
           => (~turbo' /\ ~heap'[firstSegment'].turbo /\ ~heap'[lastSegment'].turbo)
       /\ (inst = "open" /\ turbo /\ res' # res /\ res'.op = "TurboOn")
           => (res'.err = ErrTurboOn /\ UNCHANGED <<disk, mem>>)
       /\ (inst = "open" /\ ~turbo /\ res' # res /\ res'.op = "TurboOff")
           => (res'.err = ErrTurboOff /\ UNCHANGED <<disk, mem>>)
       /\ (inst = "open" /\ ~turbo /\ res' # res /\ res'.op = "TurboSync")
           => (res'.err = ErrTurboSync /\ UNCHANGED <<disk, mem>>)]_vars

\* C19 witness: TurboOff has just been refused on a strict queue whose head
\* and tail are different segments holding records.
C19_Witness ==
    /\ Loaded
    /\ ~turbo
    /\ res.op = "TurboOff"
    /\ res.err = ErrTurboOff
    /\ heap[lastSegment].number > heap[firstSegment].number
    /\ ~heap[firstSegment].turbo
    /\ ~heap[lastSegment].turbo

\* C20 validation of items_per_segment: a New or Open called with an
\* items_per_segment that is not above 0 fails before any state change: it
\* returns an error and no queue, and creates no directory and no file.
C20_ZeroCapRejected ==
    itemsPerSegment < 1
        => /\ inst = "none"
           /\ ~dirExists
           /\ SegFiles(files) = {}
           /\ res.op \in {"New", "Open"} => res.err # ErrNone

\* C21 New, Open, NewOrOpen and the queue directory: New on an existing queue
\* directory and Open on a missing one fail and leave the file system and
\* the instance unchanged; NewOrOpen creates an empty queue (directory and
\* segment 1) when the directory is missing, and when it exists opens the
\* queue with the segments and records the closed instance left.
C21_NewOpenDirectory ==
    [][/\ (dirExists /\ res' # res /\ res'.op = "New")
           => (res'.err = ErrExists /\ UNCHANGED <<disk, mem>>)
       /\ (~dirExists /\ res' # res /\ res'.op = "Open")
           => (res'.err = ErrNotExist /\ UNCHANGED <<disk, mem>>)
       /\ (~dirExists /\ res' # res /\ res'.op = "NewOrOpen")
           => /\ res'.err = ErrNone
              /\ dirExists'
              /\ Loaded'
              /\ SegFiles(files') = {1}
              /\ Contents' = <<>>
       /\ (inst = "closed" /\ crashes = 0 /\ res' # res /\ res'.op = "NewOrOpen")
           => /\ res'.err = ErrNone
              /\ Loaded'
              /\ files' = files
              /\ SegmentNumbers' = SegmentNumbers
              /\ Contents' = Contents]_vars

\* C21 witness: NewOrOpen has just opened an existing queue that holds
\* records in two segments, one record having been dequeued before.
C21_Witness ==
    /\ Loaded
    /\ crashes = 0
    /\ res.op = "NewOrOpen"
    /\ res.err = ErrNone
    /\ Len(deqLog) >= 1
    /\ Contents # <<>>
    /\ heap[lastSegment].number > heap[firstSegment].number

\* C22 Size of a closed queue: a Size() call made on a closed queue
\* returns 0.
C22_ClosedSizeZero == (inst = "closed" /\ res.op = "Size") => res.val = 0

C24_EmptyMeansEmpty ==
    (crashes = 0 /\ inst = "open")
        => /\ (firstSegment # lastSegment
                   \/ heap[firstSegment].number # heap[lastSegment].number)
                 => heap[firstSegment].objects # <<>>
           /\ (res.op \in {"Dequeue", "Peek"} /\ res.err = ErrEmpty)
                 => (Size = 0 /\ Contents = <<>>)

\* C24 witness: a Dequeue answered empty on a head numbered 2 or more that is
\* live-empty below the cap, after four records went through the queue.
C24_Witness ==
    /\ crashes = 0
    /\ inst = "open"
    /\ res.op = "Dequeue"
    /\ res.err = ErrEmpty
    /\ Len(deqLog) >= 4
    /\ heap[firstSegment].number >= 2
    /\ heap[firstSegment].removeCount >= 1
    /\ sizeOnDisk(heap[firstSegment]) < itemsPerSegment

\* C25 Records stay reachable when the cap changes: on a never-crashed queue
\* that may be reopened with another items_per_segment, the dequeued records
\* are 1, 2, 3, ... in order and a Dequeue answers empty only when no
\* segment holds a record.
C25_ReachableAfterRecap ==
    (crashes = 0 /\ inst = "open")
        => /\ \A k \in 1..Len(deqLog) : deqLog[k] = k
           /\ (res.op = "Dequeue" /\ res.err = ErrEmpty) => Contents = <<>>

\* C26 A failed write propagates: an Enqueue that returns nil has appended
\* the whole data frame of its record to a segment file, and a Dequeue that
\* returns a record with a nil error has appended a tombstone to the head's
\* file (unless it then deleted that file).
C26_FailedWritePropagates ==
    [][/\ (res'.op = "Enqueue" /\ res'.err = ErrNone /\ nEnq' = nEnq + 1)
           => \E n \in 1..MaxSegNo :
                  /\ files'[n].exists
                  /\ files'[n].data = (IF files[n].exists THEN files[n].data ELSE <<>>)
                                       \o DataFrame(nEnq')
       /\ (res'.op = "Dequeue" /\ res'.err = ErrNone /\ deqLog' # deqLog)
           => LET n == heap[firstSegment].number
              IN  files'[n].exists
                      => files'[n].data = files[n].data \o Tombstone]_vars

\* C27 No silent loss on reclamation failure: a Dequeue on a queue with
\* both segments set that removes the head's last live record at the cap,
\* so that reclamation follows, and returns an error (the head's file could
\* not be deleted, or the next segment could not be created or opened)
\* returns the removed record together with that error.
C27_RecordWithError ==
    [][(/\ inst = "open"
        /\ firstSegment # Nil
        /\ lastSegment # Nil
        /\ res'.op = "Dequeue"
        /\ (res' # res \/ deqLog' # deqLog)
        /\ Len(heap[firstSegment].objects) = 1
        /\ sizeOnDisk(heap[firstSegment]) >= itemsPerSegment
        /\ (heap[firstSegment].file \/ heap[firstSegment].turbo)
        /\ res'.err # ErrNone)
           => /\ res'.val = heap[firstSegment].objects[1]
              /\ deqLog' = Append(deqLog, heap[firstSegment].objects[1])]_vars

\* C27 witness: a Dequeue returned a record together with the error of a
\* reclamation that could not open the next segment; the head's file is gone.
C27_Witness ==
    /\ inst = "open"
    /\ res.op = "Dequeue"
    /\ res.err = ErrInconsistent
    /\ res.val # NilObj
    /\ deqLog # <<>>
    /\ res.val = deqLog[Len(deqLog)]
    /\ ~files[heap[firstSegment].number].exists

\* C28 Reclamation condition: a successful Dequeue deletes the head's file
\* exactly when the removal leaves the head live-empty with
\* len(objects) + removeCount >= itemsPerSegment; otherwise the file stays
\* and has the tombstone appended, and a live-empty head below the cap that
\* is also the tail takes the next Enqueue's frame.
C28_ReclaimCondition ==
    [][/\ (/\ inst = "open"
           /\ firstSegment # Nil
           /\ res'.op = "Dequeue"
           /\ res'.err = ErrNone
           /\ deqLog' # deqLog
           /\ files[heap[firstSegment].number].exists)
          => LET seg == heap[firstSegment]
                 n == seg.number
                 atCap == Len(seg.objects) = 1 /\ sizeOnDisk(seg) >= itemsPerSegment
             IN  /\ ~files'[n].exists <=> atCap
                 /\ ~atCap => files'[n].data = files[n].data \o Tombstone
       /\ (/\ inst = "open"
           /\ firstSegment # Nil
           /\ firstSegment = lastSegment
           /\ res'.op = "Enqueue"
           /\ res'.err = ErrNone
           /\ nEnq' = nEnq + 1
           /\ files[heap[firstSegment].number].exists
           /\ heap[firstSegment].objects = <<>>
           /\ sizeOnDisk(heap[firstSegment]) < itemsPerSegment)
          => LET n == heap[firstSegment].number
             IN  /\ firstSegment' = firstSegment
                 /\ heap'[firstSegment].number = n
                 /\ files'[n].data = files[n].data \o DataFrame(nEnq')]_vars

\* C28 witness: a successful Dequeue left head 2 or later live-empty below
\* the cap, and its file is still there, ending with the tombstone.
C28_Witness ==
    /\ inst = "open"
    /\ crashes = 0
    /\ res.op = "Dequeue"
    /\ res.err = ErrNone
    /\ heap[firstSegment].number >= 2
    /\ heap[firstSegment].objects = <<>>
    /\ heap[firstSegment].removeCount = 1
    /\ sizeOnDisk(heap[firstSegment]) < itemsPerSegment
    /\ files[heap[firstSegment].number].exists
    /\ files[heap[firstSegment].number].data = DataFrame(res.val) \o Tombstone

\* C29 Reclamation transition: when a successful Dequeue has deleted the
\* head's file, (a) with head and tail on the same number a fresh empty
\* segment numbered head + 1 is both head and tail; (b) with the tail
\* numbered head + 1 the head becomes the tail instance, which is unchanged;
\* (c) otherwise the file numbered head + 1 is replayed into the new head and
\* the tail is unchanged.
C29_ReclaimTransition ==
    [][(/\ inst = "open"
        /\ firstSegment # Nil
        /\ lastSegment # Nil
        /\ res'.op = "Dequeue"
        /\ res'.err = ErrNone
        /\ deqLog' # deqLog
        /\ files[heap[firstSegment].number].exists
        /\ ~files'[heap[firstSegment].number].exists)
          => LET n == heap[firstSegment].number
                 m == heap[lastSegment].number
             IN  IF n = m
                 THEN /\ firstSegment' = lastSegment'
                      /\ heap'[firstSegment'].number = n + 1
                      /\ heap'[firstSegment'].objects = <<>>
                      /\ heap'[firstSegment'].removeCount = 0
                      /\ files'[n + 1].exists
                      /\ files'[n + 1].data = <<>>
                 ELSE IF n + 1 = m
                 THEN /\ firstSegment' = lastSegment
                      /\ lastSegment' = lastSegment
                      /\ heap'[lastSegment] = heap[lastSegment]
                 ELSE LET l == load(files[n + 1].data, 1, <<>>, 0)
                      IN  /\ firstSegment' # lastSegment'
                          /\ heap'[firstSegment'].number = n + 1
                          /\ heap'[firstSegment'].objects = l.objects
                          /\ heap'[firstSegment'].removeCount = l.removeCount
                          /\ lastSegment' = lastSegment
                          /\ heap'[lastSegment] = heap[lastSegment]
                          /\ files'[n + 1] = files[n + 1]]_vars

\* C29 witness: the last Dequeue deleted segment 1 and replayed segment 2
\* from disk into the head, with the tail on segment 3 or later.
C29_Witness ==
    /\ inst = "open"
    /\ crashes = 0
    /\ res.op = "Dequeue"
    /\ res.err = ErrNone
    /\ firstSegment # lastSegment
    /\ heap[firstSegment].number = 2
    /\ heap[lastSegment].number >= 3
    /\ heap[firstSegment].removeCount = 0
    /\ Len(heap[firstSegment].objects) = itemsPerSegment
    /\ ~files[1].exists
    /\ Len(deqLog) = itemsPerSegment

\* C30 Single-instance invariant: whenever the queue has both segments set,
\* head and tail have the same number if and only if they are the same
\* in-memory instance.
C30_SingleInstance ==
    (inst # "none" /\ firstSegment # Nil /\ lastSegment # Nil)
        => (heap[firstSegment].number = heap[lastSegment].number
               <=> firstSegment = lastSegment)

\* C30 witness: a queue reopened on the single file left after the head
\* collapsed onto the tail: one instance, numbered 2 or more, holding a record.
C30_Witness ==
    /\ inst = "open"
    /\ res.op = "Open"
    /\ res.err = ErrNone
    /\ firstSegment # Nil
    /\ firstSegment = lastSegment
    /\ heap[firstSegment].number >= 2
    /\ heap[firstSegment].objects # <<>>
    /\ heap[firstSegment].removeCount >= 1

\* C31 Segment files form a contiguous range: on a never-crashed queue, after
\* every operation the segment files in the directory are exactly those
\* numbered head.number .. tail.number with 1 <= head.number <= tail.number,
\* neither number decreases from one state to the next, a new file is only
\* ever the one numbered tail.number + 1, and no Enqueue or Dequeue fails
\* creating a segment.
C31_ContiguousFiles ==
    [][(crashes' = 0 /\ inst' # "none")
          => /\ firstSegment' # Nil
             /\ lastSegment' # Nil
             /\ 1 <= heap'[firstSegment'].number
             /\ heap'[firstSegment'].number <= heap'[lastSegment'].number
             /\ SegFiles(files')
                    = heap'[firstSegment'].number .. heap'[lastSegment'].number
             /\ res'.err \notin {ErrNewSegment, ErrInconsistent}
             /\ (inst # "none")
                   => /\ heap'[firstSegment'].number >= heap[firstSegment].number
                      /\ heap'[lastSegment'].number >= heap[lastSegment].number
                      /\ SegFiles(files') \ SegFiles(files)
                             \subseteq {heap[lastSegment].number + 1}]_vars

\* C31 witness: files 2, 3 and 4 and no other, head on 2 and tail on 4, after
\* a Dequeue reclaimed segment 1 and before any restart.
C31_Witness ==
    /\ crashes = 0
    /\ inst = "open"
    /\ res.op = "Dequeue"
    /\ res.err = ErrNone
    /\ heap[firstSegment].number = 2
    /\ heap[lastSegment].number = 4
    /\ SegFiles(files) = {2, 3, 4}

\* C32 Per-segment cap: on a never-crashed queue with a constant cap c, the
\* head and the tail satisfy len(objects) + removeCount <= c, every segment
\* file holds at most c data frames and at most c tombstones, and every
\* file below the tail's holds exactly c data frames.
C32_PerSegmentCap ==
    (crashes = 0 /\ inst # "none")
        => /\ sizeOnDisk(heap[firstSegment]) <= itemsPerSegment
           /\ sizeOnDisk(heap[lastSegment]) <= itemsPerSegment
           /\ \A n \in DOMAIN files :
                 files[n].exists
                     => /\ DataFrames(files[n].data, 1) <= itemsPerSegment
                        /\ Tombstones(files[n].data, 1) <= itemsPerSegment
                        /\ n < heap[lastSegment].number
                              => DataFrames(files[n].data, 1) = itemsPerSegment

\* C32 witness: cap 2, a head with one record dequeued and one live, a full
\* unopened segment behind it and a tail behind that.
C32_Witness ==
    /\ crashes = 0
    /\ inst = "open"
    /\ itemsPerSegment = 2
    /\ heap[firstSegment].removeCount = 1
    /\ Len(heap[firstSegment].objects) = 1
    /\ heap[lastSegment].number = heap[firstSegment].number + 2
    /\ heap[lastSegment].objects # <<>>

\* Walking the frames of a file, live counting the records a replay holds:
\* no tombstone is met while live is 0.
RECURSIVE NoUnderflow(_, _, _)
NoUnderflow(data, pos, live) ==
    IF pos > Len(data) THEN TRUE
    ELSE IF data[pos] = 0
         THEN live > 0 /\ NoUnderflow(data, pos + 1, live - 1)
         ELSE NoUnderflow(data, pos + 1 + data[pos], live + 1)

\* C33 Segment accounting: on a never-crashed queue, the file of every open
\* segment (head and tail) holds len(objects) + removeCount data frames and
\* removeCount tombstones, and no prefix of it has more tombstones than data
\* frames.
C33_Accounting ==
    (crashes = 0 /\ inst = "open")
        => \A r \in {firstSegment, lastSegment} :
               LET seg == heap[r]
                   data == files[seg.number].data
               IN  /\ seg.file
                   /\ files[seg.number].exists
                   /\ DataFrames(data, 1) = Len(seg.objects) + seg.removeCount
                   /\ Tombstones(data, 1) = seg.removeCount
                   /\ NoUnderflow(data, 1, 0)

\* C33 witness: a reopened queue with cap 2 whose head has one tombstone
\* and one live record and whose tail, another segment, holds a record,
\* after a further Dequeue emptied the head's predecessor.
C33_Witness ==
    /\ crashes = 0
    /\ inst = "open"
    /\ res.op = "Open"
    /\ res.err = ErrNone
    /\ firstSegment # lastSegment
    /\ heap[firstSegment].number >= 2
    /\ heap[firstSegment].removeCount = 1
    /\ Len(heap[firstSegment].objects) = 1
    /\ heap[lastSegment].objects # <<>>

C35_ModeMirrored ==
    (inst # "none" /\ firstSegment # Nil /\ lastSegment # Nil)
        => /\ heap[firstSegment].turbo = turbo
           /\ heap[lastSegment].turbo = turbo

\* C35 witness: a turbo queue whose head was replayed from disk by a
\* reclamation and whose tail, two segments later, was made by a rollover.
C35_Witness ==
    /\ inst = "open"
    /\ turbo
    /\ res.op = "Dequeue"
    /\ res.err = ErrNone
    /\ firstSegment # lastSegment
    /\ heap[firstSegment].number >= 2
    /\ heap[lastSegment].number >= heap[firstSegment].number + 2
    /\ heap[firstSegment].removeCount = 0
    /\ heap[firstSegment].turbo
    /\ heap[lastSegment].turbo

\* C36 Mode toggles are serialized with queue operations: whenever no call
\* is in progress, head and tail are in the queue's mode, and an Enqueue
\* that runs while the queue's flag says strict returns only with the whole
\* tail file synced.
C36_TogglesSerialized ==
    [][/\ (\A t \in Threads : thr'[t].pc = "idle")
          => /\ heap'[firstSegment'].turbo = turbo'
             /\ heap'[lastSegment'].turbo = turbo'
       /\ (~turbo /\ res'.op = "Enqueue" /\ res'.err = ErrNone /\ nEnq' = nEnq + 1)
          => LET n == heap'[lastSegment'].number
             IN  files'[n].synced = Len(files'[n].data)]_vars

IsPrefix(s, t) == Len(s) <= Len(t) /\ SubSeq(t, 1, Len(s)) = s

\* C37 Append-only files: every completed operation of the queue leaves
\* each segment file either deleted (only the head's file, only by a
\* Dequeue) or with its previous content as a prefix of its new content;
\* a file is created empty, by New, Open, Enqueue or Dequeue.
C37_AppendOnly ==
    [][(crashes' = crashes /\ inst # "none")
          => \A n \in DOMAIN files :
                /\ (files[n].exists /\ files'[n].exists)
                      => IsPrefix(files[n].data, files'[n].data)
                /\ (files[n].exists /\ ~files'[n].exists)
                      => /\ res'.op = "Dequeue"
                         /\ firstSegment # Nil
                         /\ n = heap[firstSegment].number
                /\ (~files[n].exists /\ files'[n].exists)
                      => Len(files'[n].data) <= Len(DataFrame(nEnq'))]_vars

\* C37 witness: a file that took a data frame, a tombstone and another data
\* frame, in the order they were written.
C37_Witness ==
    /\ inst = "open"
    /\ crashes = 0
    /\ res.op = "Enqueue"
    /\ files[1].exists
    /\ files[1].data = DataFrame(1) \o Tombstone \o DataFrame(2)


\* C38 Sync per operation: on every step of a segment's add or remove, a
\* strict segment makes exactly one file sync, so that the whole file is
\* synced, and its dirty flag is false afterwards; a turbo segment makes no
\* sync, so that the synced part of the file is what it was, and its dirty
\* flag is true afterwards.
C38_SyncPerOperation ==
    [][LET seg == heap["s1"]
           seg2 == heap'["s1"]
           done == IF res'.op = "add"
                   THEN add(files, seg, seg2.objects[Len(seg2.objects)])
                   ELSE remove(files, seg)
       IN  (res'.op \in {"add", "remove"} /\ files' # files)
              => /\ files' = done.fs
                 /\ IF seg.turbo
                    THEN /\ done.syncs = 0
                         /\ files'[1].synced = files[1].synced
                         /\ seg2.maybeDirty
                    ELSE /\ done.syncs = 1
                         /\ files'[1].synced = Len(files'[1].data)
                         /\ ~seg2.maybeDirty]_vars

\* A turbo remove after a strict add: the add's frame is synced, the
\* tombstone is not, and the segment is dirty.
C38_Witness ==
    /\ res.op = "remove" /\ res.err = ErrNone
    /\ heap["s1"].turbo /\ heap["s1"].maybeDirty
    /\ files[1].data = DataFrame(1) \o Tombstone
    /\ files[1].synced = Len(DataFrame(1))

\* C39 Relaxed-to-strict flushes first: in every state of a segment, turboOff
\* on a turbo segment makes one sync when the segment is dirty and none when
\* it is not; when it succeeds the segment is strict, not dirty and its file
\* wholly synced; when the sync fails the segment is left as it was, in turbo
\* mode; on a strict segment turboOff and turboSync change nothing, make no
\* sync and return no error.
C39_FlushThenStrict ==
    LET seg == heap["s1"]
        off == turboOff(files, seg)
        snc == turboSync(files, seg)
        nothing == [fs |-> files, seg |-> seg, err |-> FALSE, syncs |-> 0]
    IN  IF seg.turbo
        THEN /\ off.syncs = (IF seg.maybeDirty THEN 1 ELSE 0)
             /\ ~off.err => /\ ~off.seg.turbo
                            /\ ~off.seg.maybeDirty
                            /\ off.seg = [seg EXCEPT !.turbo = FALSE,
                                                     !.maybeDirty = FALSE]
                            /\ (seg.maybeDirty /\ files[1].exists)
                                  => off.fs[1].synced = Len(files[1].data)
             /\ off.err => /\ off.seg = seg
                           /\ off.fs = files
        ELSE /\ off = nothing
             /\ snc = nothing

\* turboOff has failed on a dirty turbo segment whose file was deleted, and
\* the segment is still in turbo mode.
C39_Witness ==
    /\ res.op = "turboOff" /\ res.err = ErrInconsistent
    /\ heap["s1"].turbo /\ heap["s1"].maybeDirty
    /\ ~heap["s1"].file


====
